---- MODULE Spec2Model ----
(***************************************************************************)
(* Card detection and template matching of ImprovedCardDetector            *)
(* (src/improved_card_detection.py): load_templates, find_cards,           *)
(* order_points, flatten_card, isolate_rank_and_suit, match_rank,          *)
(* match_suit and detect_and_identify_cards; GameStatistics and            *)
(* ProfileManager (src/player_profile_system.py); the run loop and         *)
(* update_game_state of BlackjackGame (src/blackjack_logic.py);            *)
(* ChipManager, Bet and BettingManager (src/betting_system.py); the        *)
(* achievements and AchievementManager (src/achievement_system.py); the    *)
(* speaker thread and wait_for_speech of AudioManager (src/tts_module.py). *)
(*                                                                         *)
(* Images are piecewise constant: an image is a tuple of intensities, one  *)
(* per region, and RankRegionPx / SuitRegionPx give the number of pixels   *)
(* of each region (they add up to RANK_WIDTH*RANK_HEIGHT and               *)
(* SUIT_WIDTH*SUIT_HEIGHT).  The difference score is computed on them as   *)
(* the code computes it: int(sum(absdiff) / 255).                          *)
(*                                                                         *)
(* A contour is a record of what the OpenCV calls return for it: its area, *)
(* its polygon approximation, its bounding box, and the rank and suit      *)
(* sub-regions that flattening and corner extraction produce from it.      *)
(*                                                                         *)
(* Each specification exercises one part; the variables of the other       *)
(* parts stay at their initial values.                                     *)
(***************************************************************************)
EXTENDS Integers, Sequences, FiniteSets, TLC

VARIABLES
    rank_templates,  \* self.rank_templates, in iteration order: <<[name, img]>>
    suit_templates,  \* self.suit_templates, in iteration order
    frame,           \* the contours of the frame, in discovery order
    pc,              \* position of the detector: new, idle, loop, done
    card_contours,   \* result of find_cards
    idx,             \* index of the candidate the for loop is at
    detected_cards,  \* the list being built and returned
    raised,          \* TRUE when an exception left detect_and_identify_cards
    outcome,         \* per candidate: "ok", or "error" (the except branch printed)
    templates_dir,   \* the templates directory on disk: [exists, ranks, suits]
    config,          \* the class attributes CARD_MIN_AREA, CARD_MAX_AREA as read
    calls,           \* number of detect_and_identify_cards calls started
    pts,             \* argument of order_points
    rect,            \* result of order_points
    opc,             \* position of the order_points call: call, ret
    stats,           \* a GameStatistics object: its private counters
    peak,            \* the largest value stats.current_streak ever had
    disk,            \* profiles directory: name -> <<>> or <<saved dict>>
    heap,            \* the PlayerProfile objects of the running manager
    profiles,        \* ProfileManager._profiles: name -> index in heap, 0 if none
    current_profile, \* ProfileManager._current_profile: index in heap, 0 for None
    deleted,         \* names removed with delete_profile and not created again:
                     \* so far, and when the running manager was constructed
    scenario,        \* the profile last returned by create_profile, the games
                     \* recorded on it, and how far it got: created, saved, reloaded
    game,            \* the attributes of the BlackjackGame object
    gpc,             \* position of run(): frame, update, stopped
    final_message,   \* final_message_to_speak of update_game_state, "" for None
    spoken,          \* what self.tts.speak received during the current frame
    invocations,     \* update_game_state calls since the observed hands changed
    passes,          \* the passes of the current update_game_state call: the
                     \* phase each began in and the message_to_speak it set
    chip_manager,    \* the private counters of the ChipManager
    current_bet,     \* BettingManager.current_bet: a Bet's fields, or NoBet
    bet_result,      \* the BettingManager method last called and what it raised
    initial_balance, \* the balance the ChipManager was constructed with
    placed,          \* bets placed so far
    achievements,    \* AchievementManager.achievements, in insertion order
    game_stats,      \* the statistics of the last update_achievements call
    newly_unlocked,  \* what that call returned: positions in achievements
    notifications,   \* per achievement, how often the unlock callback got it
    satisfied,       \* per achievement, whether the statistics of some call
                     \* so far met its unlock condition
    updates,         \* update_achievements calls so far
    speak_queue,     \* AudioManager.speak_queue: the texts waiting, each with
                     \* the number of the speak call that queued it
    current_speech_process,  \* the text the running say process speaks, "" for None
    speech_lock,     \* who holds speech_lock: "" or "speaker"
    spc,             \* position of the speaker thread: get, lock, say
    taken,           \* the text the speaker thread took from the queue
    finished,            \* the speak calls whose text has been spoken to its end
    cpc,             \* position of the caller: idle, wait, returned
    awaited,         \* the speak call the caller waits for, 0 if it queued nothing
    wait_timeout,    \* timeout of the current wait_for_speech
    elapsed,         \* sleeps of time since wait_for_speech began
    speaks,          \* speak and speak_immediate calls so far
    probe,           \* the last is_speaking call: what ran at the call, its result
    immediate        \* the last speak_immediate call: its message, what it found

detVars == <<rank_templates, suit_templates, frame, pc, card_contours, idx,
             detected_cards, raised, outcome, templates_dir, config, calls>>
ordVars == <<pts, rect, opc>>
statVars == <<stats, peak>>
profVars == <<disk, heap, profiles, current_profile, scenario, deleted>>
gameVars == <<game, gpc, final_message, spoken, invocations, passes>>
betVars == <<chip_manager, current_bet, bet_result, initial_balance, placed>>
achVars == <<achievements, game_stats, newly_unlocked, notifications, satisfied, updates>>
ttsVars == <<speak_queue, current_speech_process, speech_lock, spc, taken, finished,
             cpc, awaited, wait_timeout, elapsed, speaks, probe, immediate>>
moreVars == <<betVars, achVars, ttsVars>>
notDetVars == <<ordVars, statVars, profVars, gameVars, moreVars>>
notOrdVars == <<detVars, statVars, profVars, gameVars, moreVars>>
notStatVars == <<detVars, ordVars, profVars, gameVars, moreVars>>
notProfVars == <<detVars, ordVars, statVars, gameVars, moreVars>>
notGameVars == <<detVars, ordVars, statVars, profVars, moreVars>>
firstVars == <<detVars, ordVars, statVars, profVars, gameVars>>
notBetVars == <<firstVars, achVars, ttsVars>>
notAchVars == <<firstVars, betVars, ttsVars>>
notTtsVars == <<firstVars, betVars, achVars>>
vars == <<firstVars, moreVars>>

-----------------------------------------------------------------------------
(* Class constants *)
RANK_WIDTH == 70
RANK_HEIGHT == 125
SUIT_WIDTH == 70
SUIT_HEIGHT == 100
CARD_MAX_AREA == 120000
CARD_MIN_AREA == 25000
RANK_DIFF_MAX == 2000
SUIT_DIFF_MAX == 700

(* Bounds of the model *)
MaxContours == 2
MaxFiles == 2
MaxCalls == 2
MaxGames == 5
MaxObjects == 2
MaxRecorded == 1
MaxStable == 31
MaxPasses == 8
MaxBets == 2
MaxUpdates == 3
MaxSpeaks == 2
MaxTicks == 3
GridMax == 3

-----------------------------------------------------------------------------
(* Images *)
RankRegionPx == <<2000, 1, 749, 6000>>
SuitRegionPx == <<700, 1, 299, 6000>>

Blank == <<0, 0, 0, 0>>
InkA  == <<255, 0, 0, 0>>
InkB  == <<255, 255, 0, 0>>
InkC  == <<0, 0, 255, 0>>
Gray  == <<255, 128, 0, 0>>   \* InkA but for one pixel of intensity 128

Image(w, h, px) == [w |-> w, h |-> h, px |-> px]

Abs(x) == IF x < 0 THEN -x ELSE x

RECURSIVE SumAbsDiff(_, _, _, _)
SumAbsDiff(a, b, regionPx, n) ==
    IF n = 0 THEN 0
    ELSE regionPx[n] * Abs(a[n] - b[n]) + SumAbsDiff(a, b, regionPx, n - 1)

\* cv2.absdiff raises when the two arrays differ in size
absdiff_raises(img, template) == img.w # template.w \/ img.h # template.h

-----------------------------------------------------------------------------
(* load_templates.  A file name is the sequence of its parts between dots; *)
(* a file is [filename, img], img = NoImage when cv2.imread returns None.  *)
NoImage == [w |-> 0, h |-> 0, px |-> <<>>]

File(filename, img) == [filename |-> filename, img |-> img]

\* filename.endswith(('.jpg', '.png'))
IsImageFile(filename) ==
    Len(filename) >= 2 /\ filename[Len(filename)] \in {"jpg", "png"}

\* filename.split('.')[0]
TemplateName(filename) == filename[1]

\* self.rank_templates[name] = img: a key the dict already has keeps its place
RECURSIVE Put(_, _, _)
Put(store, name, img) ==
    IF store = <<>> THEN << [name |-> name, img |-> img] >>
    ELSE IF Head(store).name = name
         THEN << [name |-> name, img |-> img] >> \o Tail(store)
         ELSE << Head(store) >> \o Put(Tail(store), name, img)

\* the for loop over os.listdir of one sub-directory
RECURSIVE LoadDir(_, _)
LoadDir(listing, store) ==
    IF listing = <<>> THEN store
    ELSE LET f == Head(listing)
         IN LoadDir(Tail(listing),
                    IF IsImageFile(f.filename) /\ f.img # NoImage
                    THEN Put(store, TemplateName(f.filename), f.img)
                    ELSE store)

\* a directory: created is TRUE when load_templates made it with os.makedirs
Dir(has_ranks, ranks, has_suits, suits) ==
    [exists |-> TRUE, created |-> FALSE, has_ranks |-> has_ranks, ranks |-> ranks,
     has_suits |-> has_suits, suits |-> suits]

EmptyDir == Dir(TRUE, <<>>, TRUE, <<>>)

MissingDir == [exists |-> FALSE, created |-> FALSE, has_ranks |-> FALSE,
               ranks |-> <<>>, has_suits |-> FALSE, suits |-> <<>>]

\* os.makedirs(self.templates_dir): the directory alone, no sub-directory
CreatedDir == [exists |-> TRUE, created |-> TRUE, has_ranks |-> FALSE,
               ranks |-> <<>>, has_suits |-> FALSE, suits |-> <<>>]

load_templates_fallback(dir) ==
    IF ~dir.exists
    THEN [dir |-> CreatedDir,
          rank_templates |-> << [name |-> "Ace", img |-> Image(RANK_WIDTH, RANK_HEIGHT, <<0, 0, 0, 0>>)] >>,
          suit_templates |-> << [name |-> "Spades", img |-> Image(SUIT_WIDTH, SUIT_HEIGHT, <<0, 0, 0, 0>>)] >>]
    ELSE [dir |-> dir,
          rank_templates |-> IF dir.has_ranks THEN LoadDir(dir.ranks, <<>>)
                             ELSE <<>>,
          suit_templates |-> IF dir.has_suits THEN LoadDir(dir.suits, <<>>)
                             ELSE <<>>]

\* the directory and the two template maps after load_templates
load_templates(dir) ==
    IF ~dir.exists
    THEN [dir |-> CreatedDir, rank_templates |-> <<>>, suit_templates |-> <<>>]
    ELSE [dir |-> dir,
          rank_templates |-> IF dir.has_ranks THEN LoadDir(dir.ranks, <<>>)
                             ELSE <<>>,
          suit_templates |-> IF dir.has_suits THEN LoadDir(dir.suits, <<>>)
                             ELSE <<>>]

\* int(np.sum(cv2.absdiff(img, template)) / 255)
image_diff(img, template, regionPx) ==
    SumAbsDiff(img.px, template.px, regionPx, Len(regionPx)) \div 255

-----------------------------------------------------------------------------
(* isolate_rank_and_suit *)
\* np.zeros((height, width), dtype=np.uint8)
Zeros(w, h) == Image(w, h, <<0, 0, 0, 0>>)

\* if cnts: resize the largest contour's box to (w, h)  else: np.zeros
Isolate(region, w, h) ==
    IF region.cnts > 0 THEN Image(w, h, region.roi) ELSE Zeros(w, h)

isolate_rank(rank_img) == Isolate(rank_img, RANK_WIDTH, RANK_HEIGHT)

isolate_suit(suit_img) == Isolate(suit_img, SUIT_WIDTH, SUIT_HEIGHT)

(* float('inf') and the integer differences *)
Inf == [fin |-> FALSE, v |-> 0]
Fin(n) == [fin |-> TRUE, v |-> n]
Less(a, b) == a.fin /\ (~b.fin \/ a.v < b.v)

-----------------------------------------------------------------------------
(* match_rank / match_suit *)

\* the for loop over templates.items(): strict <, so the first minimum wins
RECURSIVE BestMatch(_, _, _, _, _, _)
BestMatch(img, templates, regionPx, i, best_match, best_diff) ==
    IF i > Len(templates) THEN [name |-> best_match, diff |-> best_diff]
    ELSE LET d == Fin(image_diff(img, templates[i].img, regionPx))
         IN IF Less(d, best_diff)
            THEN BestMatch(img, templates, regionPx, i + 1, templates[i].name, d)
            ELSE BestMatch(img, templates, regionPx, i + 1, best_match, best_diff)

MatchRaises(img, templates) ==
    \E i \in 1..Len(templates) : absdiff_raises(img, templates[i].img)

AcceptAlways(best_diff, max) == TRUE

\* "Only return match if difference is below threshold"
Accept(best_diff, max) == Less(best_diff, Fin(max))

match_rank(rank_img, templates) ==
    IF templates = <<>> THEN [name |-> "Unknown", diff |-> Inf]
    ELSE LET b == BestMatch(rank_img, templates, RankRegionPx, 1, "Unknown", Inf)
         IN IF Accept(b.diff, RANK_DIFF_MAX) THEN b
            ELSE [name |-> "Unknown", diff |-> b.diff]

match_suit(suit_img, templates) ==
    IF templates = <<>> THEN [name |-> "Unknown", diff |-> Inf]
    ELSE LET b == BestMatch(suit_img, templates, SuitRegionPx, 1, "Unknown", Inf)
         IN IF Accept(b.diff, SUIT_DIFF_MAX) THEN b
            ELSE [name |-> "Unknown", diff |-> b.diff]

\* 1.0 - (diff / max), as the rational num/den; 1.0 - inf is -inf (fin FALSE)
Confidence(diff, max) ==
    IF diff.fin THEN [fin |-> TRUE, num |-> max - diff.v, den |-> max]
    ELSE [fin |-> FALSE, num |-> 0, den |-> max]

-----------------------------------------------------------------------------
(* order_points *)
PSum(p) == p[1] + p[2]
PDiff(p) == p[2] - p[1]      \* np.diff(pts, axis=1): y - x
PDiffXY(p) == p[1] - p[2]

\* np.argmin / np.argmax: the first index of the extreme value
ArgMin(v) ==
    CHOOSE i \in 1..Len(v) :
        /\ \A j \in 1..Len(v) : v[i] <= v[j]
        /\ \A j \in 1..(i - 1) : v[j] > v[i]
ArgMax(v) ==
    CHOOSE i \in 1..Len(v) :
        /\ \A j \in 1..Len(v) : v[i] >= v[j]
        /\ \A j \in 1..(i - 1) : v[j] < v[i]

order_points_xy(p) ==
    LET s == [i \in 1..Len(p) |-> PSum(p[i])]
        diff == [i \in 1..Len(p) |-> PDiffXY(p[i])]
    IN << p[ArgMin(s)], p[ArgMin(diff)], p[ArgMax(s)], p[ArgMax(diff)] >>

order_points(p) ==
    LET s == [i \in 1..Len(p) |-> PSum(p[i])]
        diff == [i \in 1..Len(p) |-> PDiff(p[i])]
    IN << p[ArgMin(s)], p[ArgMin(diff)], p[ArgMax(s)], p[ArgMax(diff)] >>

Cross(a, b, c) == (b[1] - a[1]) * (c[2] - a[2]) - (b[2] - a[2]) * (c[1] - a[1])

\* the 8x8 system of cv2.getPerspectiveTransform is singular when three of
\* the four source points lie on a line (duplicates included)
Singular(r) ==
    \E i, j, k \in 1..4 : i < j /\ j < k /\ Cross(r[i], r[j], r[k]) = 0

\* flatten_card has no check of its own: on a singular system OpenCV either
\* raises cv2.error or returns a matrix, depending on the build
flatten_card_raises(corners) ==
    IF Singular(order_points(corners)) THEN BOOLEAN ELSE {FALSE}

-----------------------------------------------------------------------------
(* find_cards *)

RECURSIVE InsertByAreaUnstable(_, _)
InsertByAreaUnstable(sorted, c) ==
    IF sorted = <<>> THEN <<c>>
    ELSE IF Head(sorted).area > c.area
         THEN <<Head(sorted)>> \o InsertByAreaUnstable(Tail(sorted), c)
         ELSE <<c>> \o sorted

\* sorted(contours, key=cv2.contourArea, reverse=True): stable, largest first
RECURSIVE InsertByArea(_, _)
InsertByArea(sorted, c) ==
    IF sorted = <<>> THEN <<c>>
    ELSE IF Head(sorted).area >= c.area
         THEN <<Head(sorted)>> \o InsertByArea(Tail(sorted), c)
         ELSE <<c>> \o sorted

RECURSIVE SortByArea(_)
SortByArea(contours) ==
    IF contours = <<>> THEN <<>>
    ELSE InsertByArea(SortByArea(SubSeq(contours, 1, Len(contours) - 1)),
                      contours[Len(contours)])

AreaOkAny(area) == TRUE

\* self.CARD_MIN_AREA < area < self.CARD_MAX_AREA
AreaOk(area) == config.CARD_MIN_AREA < area /\ area < config.CARD_MAX_AREA

AspectOkNarrow(w, h) == h < 2 * w /\ 10 * w < 9 * h

AspectOkBoth(w, h) == (2 * h < 5 * w /\ w < h) \/ (2 * w < 5 * h /\ h < w)

\* aspect_ratio = float(w) / h;  0.4 < aspect_ratio < 1.0
AspectOk(w, h) == 2 * h < 5 * w /\ w < h

IsCard(c) ==
    /\ AreaOk(c.area)
    /\ Len(c.approx) = 4
    /\ AspectOk(c.bbox.w, c.bbox.h)

\* hierarchy[i][3] of cv2.findContours: 0 for a contour inside no other
IsExternal(c) == c.parent = 0

\* cv2.findContours(thresh_image, mode, cv2.CHAIN_APPROX_SIMPLE)[0] on an
\* image whose contours are given: RETR_EXTERNAL retrieves the outermost
\* ones, RETR_TREE all of them
findContours(image, mode) ==
    IF mode = "RETR_EXTERNAL" THEN SelectSeq(image, IsExternal) ELSE image

find_cards(contours) ==
    SelectSeq(SortByArea(findContours(contours, "RETR_TREE")), IsCard)

-----------------------------------------------------------------------------
(* detect_and_identify_cards *)

RecordAtOrigin(card_info, r, s) ==
    [ rank |-> r.name, suit |-> s.name,
      rank_confidence |-> Confidence(r.diff, RANK_DIFF_MAX),
      suit_confidence |-> Confidence(s.diff, SUIT_DIFF_MAX),
      contour |-> card_info.id,
      bbox |-> [x |-> 0, y |-> 0, w |-> card_info.bbox.w, h |-> card_info.bbox.h],
      center |-> << card_info.bbox.w \div 2, card_info.bbox.h \div 2 >> ]

Record(card_info, r, s) ==
    [ rank |-> r.name,
      suit |-> s.name,
      rank_confidence |-> Confidence(r.diff, RANK_DIFF_MAX),
      suit_confidence |-> Confidence(s.diff, SUIT_DIFF_MAX),
      contour |-> card_info.id,
      bbox |-> card_info.bbox,
      center |-> << card_info.bbox.x + card_info.bbox.w \div 2,
                    card_info.bbox.y + card_info.bbox.h \div 2 >> ]

AfterExceptionAbort(i) == [pc |-> "done", idx |-> i, raised |-> TRUE]

\* except Exception as e: print(...); continue
AfterException(i) == [pc |-> "loop", idx |-> i + 1, raised |-> FALSE]

\* __init__: the two maps are set empty, then load_templates fills them
Construct ==
    /\ pc = "new"
    /\ LET loaded == load_templates(templates_dir)
       IN /\ rank_templates' = loaded.rank_templates
          /\ suit_templates' = loaded.suit_templates
          /\ templates_dir' = loaded.dir
    /\ pc' = "idle"
    /\ UNCHANGED <<frame, card_contours, idx, detected_cards, raised, outcome,
                   config, calls>>
    /\ UNCHANGED notDetVars

DetectStartKeep ==
    /\ pc = "idle"
    /\ card_contours' = find_cards(frame)
    /\ idx' = 1
    /\ outcome' = <<>>
    /\ calls' = calls + 1
    /\ pc' = "loop"
    /\ UNCHANGED <<rank_templates, suit_templates, frame, raised, detected_cards,
                   templates_dir, config>>
    /\ UNCHANGED notDetVars

\* gray, thresh = preprocess_image(frame); card_contours = find_cards(thresh);
\* detected_cards = []
DetectStart ==
    /\ pc = "idle"
    /\ card_contours' = find_cards(frame)
    /\ detected_cards' = <<>>
    /\ idx' = 1
    /\ outcome' = <<>>
    /\ calls' = calls + 1
    /\ pc' = "loop"
    /\ UNCHANGED <<rank_templates, suit_templates, frame, raised,
                   templates_dir, config>>
    /\ UNCHANGED notDetVars

\* one pass of  for card_info in card_contours: try: ... except: continue
ProcessCard ==
    /\ pc = "loop"
    /\ idx <= Len(card_contours)
    /\ LET card_info == card_contours[idx]
       IN \E flattenRaises \in flatten_card_raises(card_info.approx) :
            LET fails == \/ flattenRaises
                         \/ MatchRaises(isolate_rank(card_info.rank_img), rank_templates)
                         \/ MatchRaises(isolate_suit(card_info.suit_img), suit_templates)
                r == match_rank(isolate_rank(card_info.rank_img), rank_templates)
                s == match_suit(isolate_suit(card_info.suit_img), suit_templates)
                e == AfterException(idx)
            IN IF fails
               THEN /\ pc' = e.pc
                    /\ idx' = e.idx
                    /\ raised' = e.raised
                    /\ outcome' = Append(outcome, "error")
                    /\ UNCHANGED detected_cards
               ELSE /\ detected_cards' = Append(detected_cards, Record(card_info, r, s))
                    /\ idx' = idx + 1
                    /\ outcome' = Append(outcome, "ok")
                    /\ UNCHANGED <<pc, raised>>
    /\ UNCHANGED <<rank_templates, suit_templates, frame, card_contours,
                   templates_dir, config, calls>>
    /\ UNCHANGED notDetVars

\* return detected_cards
DetectReturn ==
    /\ pc = "loop"
    /\ idx > Len(card_contours)
    /\ pc' = "done"
    /\ UNCHANGED <<rank_templates, suit_templates, frame, card_contours, idx,
                   detected_cards, raised, outcome, templates_dir, config, calls>>
    /\ UNCHANGED notDetVars

DetectNext == DetectStart \/ ProcessCard \/ DetectReturn

-----------------------------------------------------------------------------
(* Inputs *)
\* a thresholded sub-region of the corner: the number of contours
\* cv2.findContours returns for it, and what cv2.resize makes of the largest
Region(px) == [cnts |-> IF px = Blank THEN 0 ELSE 1, roi |-> px]

Box(x, y, w, h) == [x |-> x, y |-> y, w |-> w, h |-> h]

\* a rectangle's four corners, as cv2.approxPolyDP returns them
Quad(x, y, w, h) == << <<x, y>>, <<x + w - 1, y>>, <<x + w - 1, y + h - 1>>, <<x, y + h - 1>> >>
Penta(x, y, w, h) == << <<x, y>>, <<x + w - 1, y>>, <<x + w - 1, y + h - 1>>,
                        <<x + (w \div 2), y + h - 1>>, <<x, y + h - 1>> >>
\* four points of which three lie on one line
Collinear(x, y, w, h) == << <<x, y>>, <<x + w - 1, y>>, <<x + w - 1, y + h - 1>>,
                            <<x + w - 1, y + (h \div 2)>> >>

Contour(area, approx, bbox, px) ==
    [ id |-> 0, parent |-> 0, area |-> area, approx |-> approx, bbox |-> bbox,
      rank_img |-> Region(px), suit_img |-> Region(px) ]

\* frames: every sequence of at most MaxContours contours, numbered in
\* discovery order
Frames(S) ==
    UNION { { [i \in 1..n |-> [f[i] EXCEPT !.id = i]] : f \in [1..n -> S] }
            : n \in 0..MaxContours }

TemplateStores(names, images) ==
    {<<>>}
    \cup { <<[name |-> n, img |-> i]>> : n \in names, i \in images }
    \cup { <<[name |-> n1, img |-> i1], [name |-> n2, img |-> i2]>> :
             <<n1, n2>> \in {p \in names \X names : p[1] # p[2]},
             <<i1, i2>> \in images \X images }

RankTemplateImages ==
    { Image(RANK_WIDTH, RANK_HEIGHT, px) : px \in {InkA, InkB, InkC, Gray} }
    \cup { Image(SUIT_WIDTH, SUIT_HEIGHT, InkA) }     \* a file of another size
SuitTemplateImages ==
    { Image(SUIT_WIDTH, SUIT_HEIGHT, px) : px \in {InkA, InkB, InkC} }
    \cup { Image(RANK_WIDTH, RANK_HEIGHT, InkA) }

\* contours of the pipeline specification: a card, a region whose polygon
\* has three points on a line, and a region too small to be a card
DetectContours ==
    { Contour(60000, Quad(10, 20, 200, 300), Box(10, 20, 200, 300), px) :
        px \in {Blank, InkA} }
    \cup { Contour(30000, Collinear(10, 20, 200, 300), Box(10, 20, 200, 300), px) :
        px \in {Blank, InkA} }
    \cup { Contour(100, Quad(0, 0, 11, 11), Box(0, 0, 11, 11), Blank) }

\* contours of the find_cards specification: areas around both thresholds,
\* polygons of 4 and 5 vertices, bounding boxes around both aspect limits
FindAreas == { CARD_MIN_AREA - 1, CARD_MIN_AREA, CARD_MIN_AREA + 1,
               CARD_MAX_AREA - 1, CARD_MAX_AREA, CARD_MAX_AREA + 1 }
FindBoxes == { Box(0, 0, 240, 600), Box(0, 0, 241, 600), Box(0, 0, 400, 600),
               Box(0, 0, 600, 600), Box(0, 0, 600, 400) }
\* every area with a card-shaped box, every box with an admissible area, a
\* contour too large and wider than tall, and five-cornered contours
FindContours ==
    { Contour(a, Quad(0, 0, 400, 600), Box(0, 0, 400, 600), InkA) : a \in FindAreas }
    \cup { Contour(CARD_MIN_AREA + 1, Quad(b.x, b.y, b.w, b.h), b, InkA) : b \in FindBoxes }
    \cup { Contour(CARD_MAX_AREA + 1, Quad(0, 0, 600, 400), Box(0, 0, 600, 400), InkA) }
    \cup { Contour(a, Penta(b.x, b.y, b.w, b.h), b, InkA) :
             a \in {CARD_MIN_AREA - 1, CARD_MIN_AREA + 1},
             b \in {Box(0, 0, 400, 600), Box(0, 0, 600, 400)} }

\* contours of an image with nesting: a card, a frame printed inside it, a
\* panel inside the frame and a pip, each with and without a glyph
NestContours ==
    LET boxes == { Box(0, 0, 300, 390), Box(10, 10, 200, 300), Box(20, 20, 150, 200),
                   Box(30, 30, 50, 80) }
    IN { Contour(b.w * b.h, Quad(b.x, b.y, b.w, b.h), b, px) :
           b \in boxes, px \in {Blank, InkA} }

\* the contour directly enclosing contour i of image f (the smallest one
\* whose box has the box of i strictly inside it), 0 if there is none
ParentOf(f, i) ==
    LET Inside(b, c) == /\ c.x < b.x /\ b.x + b.w < c.x + c.w
                        /\ c.y < b.y /\ b.y + b.h < c.y + c.h
        enclosing == { j \in DOMAIN f : Inside(f[i].bbox, f[j].bbox) }
    IN IF enclosing = {} THEN 0
       ELSE CHOOSE j \in enclosing : \A k \in enclosing : f[j].area <= f[k].area

NestedFrames(S) ==
    { [i \in DOMAIN f |-> [f[i] EXCEPT !.parent = ParentOf(f, i)]] : f \in Frames(S) }

\* directory listings: sequences of distinct files, in os.listdir order
Listings(files) ==
    UNION { { l \in [1..n -> files] : \A i, j \in 1..n : i # j => l[i] # l[j] }
            : n \in 0..MaxFiles }

RankFiles ==
    { File(<<"Ace", "jpg">>, Image(RANK_WIDTH, RANK_HEIGHT, InkA)),
      File(<<"Ace", "png">>, Image(RANK_WIDTH, RANK_HEIGHT, InkB)),
      File(<<"King", "png">>, Image(RANK_WIDTH, RANK_HEIGHT, InkC)),
      File(<<"Ten", "JPG">>, Image(RANK_WIDTH, RANK_HEIGHT, InkA)),
      File(<<"notes", "txt">>, NoImage),
      File(<<"Queen", "jpg">>, NoImage) }

SuitFiles ==
    { File(<<"Spades", "jpg">>, Image(SUIT_WIDTH, SUIT_HEIGHT, InkA)),
      File(<<"Hearts", "v2", "png">>, Image(SUIT_WIDTH, SUIT_HEIGHT, InkC)) }

TemplateDirs ==
    {MissingDir}
    \cup { Dir(TRUE, r, TRUE, u) : r \in Listings(RankFiles), u \in Listings(SuitFiles) }
    \cup { Dir(FALSE, <<>>, TRUE, u) : u \in Listings(SuitFiles) }
    \cup { Dir(TRUE, r, FALSE, <<>>) : r \in Listings(RankFiles) }

LoadContours ==
    { Contour(60000, Quad(10, 20, 200, 300), Box(10, 20, 200, 300), px) :
        px \in {Blank, InkA} }

\* the class attributes as the source sets them
DefaultConfig == [CARD_MIN_AREA |-> CARD_MIN_AREA, CARD_MAX_AREA |-> CARD_MAX_AREA]

\* admission windows the class attributes can be set to: the source's, an
\* empty one (minimum above maximum), a zero one and a negative one
Config(min, max) == [CARD_MIN_AREA |-> min, CARD_MAX_AREA |-> max]

Configs ==
    { DefaultConfig, Config(CARD_MAX_AREA, CARD_MIN_AREA), Config(CARD_MIN_AREA, CARD_MIN_AREA),
      Config(0, 0), Config(0 - CARD_MIN_AREA, 0 - CARD_MAX_AREA) }

CallContours ==
    { Contour(60000, Quad(10, 20, 200, 300), Box(10, 20, 200, 300), InkA),
      Contour(30000, Collinear(10, 20, 200, 300), Box(10, 20, 200, 300), Blank) }

CallStores ==
    { <<>>,
      << [name |-> "Ace", img |-> Image(RANK_WIDTH, RANK_HEIGHT, InkA)] >>,
      << [name |-> "Ace", img |-> Image(RANK_WIDTH, RANK_HEIGHT, InkA)],
         [name |-> "King", img |-> Image(RANK_WIDTH, RANK_HEIGHT, InkC)] >> }

-----------------------------------------------------------------------------
(* several calls on one detector *)
\* the caller passes another frame to the same detector; the list returned
\* by the previous call stays with the caller
NewCall ==
    /\ pc = "done"
    /\ calls < MaxCalls
    /\ frame' \in Frames(CallContours)
    /\ pc' = "idle"
    /\ UNCHANGED <<rank_templates, suit_templates, card_contours, idx,
                   detected_cards, raised, outcome, templates_dir, config, calls>>
    /\ UNCHANGED notDetVars

-----------------------------------------------------------------------------
(* order_points as a call of its own *)
Grid == (0..GridMax) \X (0..GridMax)

OrderPoints ==
    /\ opc = "call"
    /\ rect' = order_points(pts)
    /\ opc' = "ret"
    /\ UNCHANGED pts
    /\ UNCHANGED notOrdVars

-----------------------------------------------------------------------------
(* GameStatistics (src/player_profile_system.py) *)
\* GameStatistics.__init__
NewStats ==
    [ total_games |-> 0, wins |-> 0, losses |-> 0, pushes |-> 0, blackjacks |-> 0,
      busts |-> 0, total_cards_dealt |-> 0, current_streak |-> 0, longest_streak |-> 0 ]

record_game_result_keep(st, result, player_score, cards_dealt, is_blackjack) ==
    LET counted == [st EXCEPT !.total_games = @ + 1, !.total_cards_dealt = @ + cards_dealt]
    IN IF result = "win"
       THEN [counted EXCEPT !.wins = @ + 1, !.current_streak = @ + 1,
                            !.longest_streak = IF st.current_streak + 1 > @
                                               THEN st.current_streak + 1 ELSE @]
       ELSE IF result = "loss" THEN [counted EXCEPT !.losses = @ + 1]
       ELSE [counted EXCEPT !.pushes = @ + 1]

\* GameStatistics.record_game_result
record_game_result(st, result, player_score, cards_dealt, is_blackjack) ==
    LET counted == [st EXCEPT !.total_games = @ + 1, !.total_cards_dealt = @ + cards_dealt]
        played ==
            IF result = "win"
            THEN [counted EXCEPT !.wins = @ + 1, !.current_streak = @ + 1,
                                 !.longest_streak = IF st.current_streak + 1 > @
                                                    THEN st.current_streak + 1 ELSE @]
            ELSE IF result = "loss"
            THEN [counted EXCEPT !.losses = @ + 1, !.current_streak = 0,
                                 !.busts = IF player_score > 21 THEN @ + 1 ELSE @]
            ELSE [counted EXCEPT !.pushes = @ + 1]
    IN IF is_blackjack THEN [played EXCEPT !.blackjacks = @ + 1] ELSE played

Max(a, b) == IF a > b THEN a ELSE b

\* stats.record_game_result(result, player_score, dealer_score, cards_dealt, is_blackjack)
RecordGameResult ==
    /\ stats.total_games < MaxGames
    /\ \E result \in {"win", "loss", "push"}, player_score \in {20, 23},
          is_blackjack \in BOOLEAN :
            stats' = record_game_result(stats, result, player_score, 4, is_blackjack)
    /\ peak' = Max(peak, stats'.current_streak)
    /\ UNCHANGED notStatVars

StatsIdle == stats = NewStats /\ peak = 0

-----------------------------------------------------------------------------
(* PlayerProfile and ProfileManager (src/player_profile_system.py) *)
NameOrder == <<"Alice", "Bob">>
Names == { NameOrder[i] : i \in DOMAIN NameOrder }

\* the subclass create_profile and _load_all_profiles pick for a type name
ClassOf(profile_type) ==
    IF profile_type \in {"Beginner", "Expert"} THEN profile_type ELSE "Standard"

\* PlayerProfile.__init__
NewProfile(name, profile_type) ==
    [name |-> name, profile_type |-> ClassOf(profile_type), statistics |-> NewStats]

\* GameStatistics.to_dict: total_cards_dealt is not among the keys
to_dict(st) ==
    [ total_games |-> st.total_games, wins |-> st.wins, losses |-> st.losses,
      pushes |-> st.pushes, blackjacks |-> st.blackjacks, busts |-> st.busts,
      longest_streak |-> st.longest_streak, current_streak |-> st.current_streak ]

\* GameStatistics.from_dict, on the object GameStatistics.__init__ made
from_dict(data) ==
    [ NewStats EXCEPT !.total_games = data.total_games, !.wins = data.wins,
                      !.losses = data.losses, !.pushes = data.pushes,
                      !.blackjacks = data.blackjacks, !.busts = data.busts,
                      !.longest_streak = data.longest_streak,
                      !.current_streak = data.current_streak ]

\* PlayerProfile.to_dict
ProfileToDict(profile) ==
    [name |-> profile.name, profile_type |-> profile.profile_type,
     statistics |-> to_dict(profile.statistics)]

\* the body of the for loop of _load_all_profiles for one file
LoadProfile(data) ==
    [name |-> data.name, profile_type |-> ClassOf(data.profile_type),
     statistics |-> from_dict(data.statistics)]

\* _save_profile: json.dump(profile.to_dict()) into <name>.json
save_profile(d, profile) == [d EXCEPT ![profile.name] = << ProfileToDict(profile) >>]

\* _load_all_profiles: one object per .json file of the directory
RECURSIVE LoadAll(_, _, _)
LoadAll(d, i, loaded) ==
    IF i > Len(NameOrder) THEN loaded
    ELSE IF d[NameOrder[i]] = <<>> THEN LoadAll(d, i + 1, loaded)
    ELSE LoadAll(d, i + 1, Append(loaded, LoadProfile(d[NameOrder[i]][1])))

\* self._profiles[name] = profile, as the index of the object in the heap
IndexOf(objects, name) ==
    IF \E i \in DOMAIN objects : objects[i].name = name
    THEN CHOOSE i \in DOMAIN objects : objects[i].name = name
    ELSE 0

NoScenario == [name |-> "", handle |-> 0, recorded |-> 0, stage |-> "none"]

\* ProfileManager.create_profile(name, profile_type)
CreateProfile ==
    /\ Len(heap) < MaxObjects
    /\ \E name \in Names, profile_type \in {"Casual"} :
         LET profile == NewProfile(name, profile_type)
         IN /\ heap' = Append(heap, profile)
            /\ profiles' = [profiles EXCEPT ![name] = Len(heap) + 1]
            /\ disk' = save_profile(disk, profile)
            /\ scenario' = [name |-> name, handle |-> Len(heap) + 1,
                            recorded |-> 0, stage |-> "created"]
            /\ deleted' = [names |-> deleted.names \ {name},
                           before_manager |-> deleted.before_manager \ {name}]
    /\ UNCHANGED current_profile
    /\ UNCHANGED notProfVars

\* PlayerProfile.record_game on a profile object the caller holds
RecordGame ==
    /\ \E h \in {scenario.handle, current_profile} \ {0}, result \in {"win", "loss"} :
         /\ heap[h].statistics.total_games < MaxRecorded
         /\ heap' = [heap EXCEPT ![h].statistics =
                                    record_game_result(@, result, 20, 4, FALSE)]
         /\ scenario' =
              IF h = scenario.handle /\ scenario.stage \in {"created", "saved"}
              THEN [scenario EXCEPT !.recorded = @ + 1, !.stage = "created"]
              ELSE IF scenario.stage = "reloaded" THEN NoScenario
              ELSE scenario
    /\ UNCHANGED <<disk, profiles, current_profile, deleted>>
    /\ UNCHANGED notProfVars

\* ProfileManager.set_current_profile(name)
SetCurrentProfile ==
    /\ \E name \in Names :
         current_profile' = IF profiles[name] # 0 THEN profiles[name]
                            ELSE current_profile
    /\ UNCHANGED <<disk, heap, profiles, scenario, deleted>>
    /\ UNCHANGED notProfVars

\* ProfileManager.save_current_profile()
SaveCurrentProfile ==
    /\ disk' =
         IF current_profile # 0
         THEN LET name == heap[current_profile].name
              IN IF profiles[name] # 0 THEN save_profile(disk, heap[profiles[name]])
                 ELSE save_profile(disk, heap[current_profile])
         ELSE disk
    /\ scenario' = IF scenario.stage = "created"
                   THEN [scenario EXCEPT !.stage = "saved"] ELSE scenario
    /\ UNCHANGED <<heap, profiles, current_profile, deleted>>
    /\ UNCHANGED notProfVars

\* save_all_profiles: every profile of _profiles is written
RECURSIVE SaveAll(_, _, _, _)
SaveAll(d, objects, index, i) ==
    IF i > Len(NameOrder) THEN d
    ELSE SaveAll(IF index[NameOrder[i]] # 0
                 THEN save_profile(d, objects[index[NameOrder[i]]]) ELSE d,
                 objects, index, i + 1)

\* ProfileManager.save_all_profiles()
SaveAllProfiles ==
    /\ disk' = SaveAll(disk, heap, profiles, 1)
    /\ scenario' = NoScenario
    /\ UNCHANGED <<heap, profiles, current_profile, deleted>>
    /\ UNCHANGED notProfVars

\* ProfileManager.delete_profile(name): the entry and the file go,
\* _current_profile stays as it is
DeleteProfile ==
    /\ \E name \in Names :
         IF profiles[name] # 0
         THEN /\ profiles' = [profiles EXCEPT ![name] = 0]
              /\ disk' = [disk EXCEPT ![name] = <<>>]
              /\ UNCHANGED current_profile
              /\ deleted' = [deleted EXCEPT !.names = @ \cup {name}]
              /\ scenario' = IF scenario.name = name THEN NoScenario ELSE scenario
         ELSE UNCHANGED <<profiles, disk, current_profile, deleted, scenario>>
    /\ UNCHANGED heap
    /\ UNCHANGED notProfVars

\* ProfileManager(profiles_directory) on the same directory: __init__
NewManager ==
    /\ heap' = LoadAll(disk, 1, <<>>)
    /\ profiles' = [name \in Names |-> IndexOf(heap', name)]
    /\ current_profile' = 0
    /\ scenario' = IF scenario.stage = "saved"
                   THEN [scenario EXCEPT !.stage = "reloaded", !.handle = 0]
                   ELSE NoScenario
    /\ deleted' = [deleted EXCEPT !.before_manager = deleted.names]
    /\ UNCHANGED disk
    /\ UNCHANGED notProfVars

\* a manager constructed on an empty directory
ProfileIdle ==
    /\ disk = [name \in Names |-> <<>>]
    /\ heap = <<>>
    /\ profiles = [name \in Names |-> 0]
    /\ current_profile = 0
    /\ scenario = NoScenario
    /\ deleted = [names |-> {}, before_manager |-> {}]

-----------------------------------------------------------------------------
(* BlackjackGame (src/blackjack_logic.py) *)
REQUIRED_STABILITY == 30

\* card ids in the order sorted() gives them; a card is its index in Deck
Deck == <<"10H", "5D", "8C", "9S", "AS", "KH">>

\* card_id[:-1]
ValueStr(card) == <<"10", "5", "8", "9", "A", "K">>[card]

\* self.card_values.get(value_str, 0)
CardValue(value_str) ==
    CASE value_str = "A" -> 11
      [] value_str \in {"K", "Q", "J", "10"} -> 10
      [] value_str = "9" -> 9
      [] value_str = "8" -> 8
      [] value_str = "7" -> 7
      [] value_str = "6" -> 6
      [] value_str = "5" -> 5
      [] value_str = "4" -> 4
      [] value_str = "3" -> 3
      [] value_str = "2" -> 2
      [] OTHER -> 0

RECURSIVE HandTotal(_)
HandTotal(hand) ==
    IF hand = <<>> THEN 0 ELSE CardValue(ValueStr(Head(hand))) + HandTotal(Tail(hand))

Aces(hand) == Len(SelectSeq(hand, LAMBDA c : CardValue(ValueStr(c)) = 11))

\* while total > 21 and aces > 0: total -= 10; aces -= 1
RECURSIVE SoftenAces(_, _)
SoftenAces(total, aces) ==
    IF total > 21 /\ aces > 0 THEN SoftenAces(total - 10, aces - 1) ELSE total

calculate_hand_value(hand) == SoftenAces(HandTotal(hand), Aces(hand))

\* tuple(sorted(ids))
RECURSIVE InsertSorted(_, _)
InsertSorted(sorted, c) ==
    IF sorted = <<>> THEN <<c>>
    ELSE IF Head(sorted) <= c THEN <<Head(sorted)>> \o InsertSorted(Tail(sorted), c)
    ELSE <<c>> \o sorted

RECURSIVE Sorted(_)
Sorted(ids) ==
    IF ids = <<>> THEN <<>> ELSE InsertSorted(Sorted(Tail(ids)), Head(ids))

RECURSIVE Ids(_)
Ids(cards) == IF cards = <<>> THEN <<>> ELSE <<Head(cards).id>> \o Ids(Tail(cards))

\* tuple(sorted([c['id'] for c in card_data if c['owner'] == owner]))
HandTuple(card_data, owner) ==
    Sorted(Ids(SelectSeq(card_data, LAMBDA c : c.owner = owner)))

\* the attributes reset_game assigns
reset_game(g) ==
    [ g EXCEPT !.player_hand = <<>>, !.dealer_hand = <<>>, !.player_total = 0,
               !.dealer_total = 0, !.last_dealer_total = 0, !.last_player_total = 0,
               !.last_seen_player_hand = <<>>, !.last_seen_dealer_hand = <<>>,
               !.current_stability_count = 0, !.game_phase = "WAITING_FOR_CLEAR",
               !.game_end_announced = FALSE ]

\* BlackjackGame.__init__, then the reset_game() run() starts with
NewGame ==
    [ running |-> TRUE, player_hand |-> <<>>, dealer_hand |-> <<>>,
      player_total |-> 0, dealer_total |-> 0, last_dealer_total |-> 0,
      last_player_total |-> 0, last_seen_player_hand |-> <<>>,
      last_seen_dealer_hand |-> <<>>, current_stability_count |-> 0,
      game_phase |-> "WAITING_FOR_CLEAR", game_end_announced |-> FALSE ]

\* determine_winner: which of its messages it returns
determine_winner(player_total, dealer_total) ==
    IF player_total > 21 THEN "You busted. You lose."
    ELSE IF dealer_total > 21 THEN "Dealer busted. You win!"
    ELSE IF player_total > dealer_total THEN "You win!"
    ELSE IF dealer_total > player_total THEN "Dealer wins."
    ELSE "It's a push."

Pass(g, message, state_changed, said) ==
    [g |-> g, message |-> message, state_changed |-> state_changed, said |-> said]

\* STARTING leaves for PLAYER_TURN on exactly two player cards and one dealer card
cards_dealt_any(g) == Len(g.player_hand) >= 2 /\ Len(g.dealer_hand) = 1

cards_dealt(g) == Len(g.player_hand) = 2 /\ Len(g.dealer_hand) = 1

\* state_changed after a hit: the loop waits for the next physical action
hit_state_changed_loop == TRUE

hit_state_changed == FALSE

\* one pass of the while True loop of update_game_state: the game after it,
\* message_to_speak ("" for None), state_changed, and what speak_and_wait said
update_pass(g0) ==
    LET g == [g0 EXCEPT !.player_total = calculate_hand_value(g0.player_hand),
                        !.dealer_total = calculate_hand_value(g0.dealer_hand)]
        clear == Len(g.player_hand) = 0 /\ Len(g.dealer_hand) = 0
        player_hand_changed == g.player_total # g.last_player_total
        dealer_hand_changed == Len(g.dealer_hand) > 1
    IN CASE g.game_phase = "WAITING_FOR_CLEAR" ->
              IF clear
              THEN Pass([g EXCEPT !.game_phase = "STARTING"], "Table is clear.", TRUE, <<>>)
              ELSE Pass(g, "", FALSE, <<>>)
         [] g.game_phase = "STARTING" ->
              IF cards_dealt(g)
              THEN Pass([g EXCEPT !.game_phase = "PLAYER_TURN",
                                  !.last_dealer_total = g.dealer_total,
                                  !.last_player_total = g.player_total],
                        "Cards dealt.", TRUE, <<>>)
              ELSE Pass(g, "", FALSE, <<>>)
         [] g.game_phase = "PLAYER_TURN" ->
              IF g.player_total > 21
              THEN Pass([g EXCEPT !.game_phase = "GAME_OVER",
                                  !.last_player_total = g.player_total],
                        "Game over.", TRUE, <<"You busted. You lose.">>)
              ELSE IF g.player_total = 21
              THEN Pass([g EXCEPT !.game_phase = "DEALER_TURN",
                                  !.last_player_total = g.player_total],
                        "You have 21.", TRUE, <<>>)
              ELSE IF player_hand_changed
              THEN Pass([g EXCEPT !.last_player_total = g.player_total],
                        "Your total is now.", hit_state_changed, <<>>)
              ELSE IF dealer_hand_changed
              THEN Pass([g EXCEPT !.game_phase = "DEALER_TURN",
                                  !.last_player_total = g.player_total,
                                  !.game_end_announced = FALSE],
                        "", TRUE, <<"You stand. Dealer's turn.">>)
              ELSE Pass(g, "", FALSE, <<>>)
         [] g.game_phase = "DEALER_TURN" ->
              IF g.dealer_total >= 17 /\ ~g.game_end_announced
              THEN Pass([g EXCEPT !.game_end_announced = TRUE,
                                  !.last_dealer_total = g.dealer_total,
                                  !.game_phase = "GAME_OVER"],
                        "Game over.", TRUE,
                        << IF g.dealer_total > 21 THEN "Dealer busts." ELSE "Dealer stands.",
                           determine_winner(g.player_total, g.dealer_total) >>)
              ELSE IF g.dealer_total # g.last_dealer_total /\ g.dealer_total < 17
              THEN Pass([g EXCEPT !.last_dealer_total = g.dealer_total],
                        "Dealer total is now.", FALSE, <<>>)
              ELSE Pass(g, "", FALSE, <<>>)
         [] g.game_phase = "GAME_OVER" ->
              IF clear THEN Pass(reset_game(g), "", TRUE, <<>>)
              ELSE Pass(g, "", FALSE, <<>>)
         [] OTHER -> Pass(g, "", FALSE, <<>>)

Card(id, owner) == [id |-> id, owner |-> owner]

\* what get_detected_cards can report: the table at the stages of a game,
\* cards in the order the detector lists them
CardData ==
    { <<>>,
      << Card(6, "Player"), Card(2, "Dealer"), Card(4, "Player") >>,
      << Card(6, "Player"), Card(4, "Player"), Card(3, "Player"), Card(2, "Dealer") >>,
      << Card(6, "Player"), Card(4, "Player"), Card(2, "Dealer"), Card(1, "Dealer") >>,
      << Card(4, "Player"), Card(6, "Player"), Card(1, "Dealer"), Card(2, "Dealer"),
         Card(3, "Dealer") >>,
      << Card(5, "Player"), Card(6, "Player"), Card(2, "Dealer") >> }

\* one pass of the while self.running loop of run(), up to the call of
\* update_game_state when the hands have just become stable
Frame ==
    /\ gpc = "frame"
    /\ game.running
    /\ \/ /\ gpc' = "stopped"                      \* frame_to_show is None: break
          /\ UNCHANGED <<game, invocations>>
       \/ /\ game' = [game EXCEPT !.running = FALSE]  \* key == ord('q'): break
          /\ gpc' = "stopped"
          /\ UNCHANGED invocations
       \/ \E card_data \in CardData :
            LET current_player_hand_tuple == HandTuple(card_data, "Player")
                current_dealer_hand_tuple == HandTuple(card_data, "Dealer")
                has_vision_changed ==
                    \/ current_player_hand_tuple # game.last_seen_player_hand
                    \/ current_dealer_hand_tuple # game.last_seen_dealer_hand
                count == IF has_vision_changed THEN 0
                         ELSE game.current_stability_count + 1
                is_now_stable == count = REQUIRED_STABILITY
                seen == [game EXCEPT !.current_stability_count = count,
                                     !.last_seen_player_hand = current_player_hand_tuple,
                                     !.last_seen_dealer_hand = current_dealer_hand_tuple]
                since == IF has_vision_changed THEN 0 ELSE invocations
            IN /\ count <= MaxStable
               /\ IF is_now_stable
                  THEN /\ game' = [seen EXCEPT !.player_hand = seen.last_seen_player_hand,
                                               !.dealer_hand = seen.last_seen_dealer_hand]
                       /\ gpc' = "update"
                       /\ invocations' = since + 1
                  ELSE /\ game' = seen
                       /\ gpc' = "frame"
                       /\ invocations' = since
    /\ final_message' = ""
    /\ spoken' = <<>>
    /\ passes' = <<>>
    /\ UNCHANGED notGameVars

\* Loop Control: a pass that generated a message replaces the stored one
first_message(final, message) == IF final # "" THEN final ELSE message

last_message(final, message) == IF message # "" THEN message ELSE final

\* one pass of the while True loop of update_game_state; the last pass
\* returns final_message to run(), which speaks it
UpdatePass ==
    /\ gpc = "update"
    /\ Len(passes) < MaxPasses
    /\ LET pass == update_pass(game)
           final == last_message(final_message, pass.message)
       IN /\ game' = pass.g
          /\ final_message' = final
          /\ passes' = Append(passes, [phase |-> game.game_phase,
                                       message |-> pass.message,
                                       said |-> pass.said])
          /\ IF pass.state_changed
             THEN /\ gpc' = "update"
                  /\ spoken' = spoken \o pass.said
             ELSE /\ gpc' = "frame"
                  /\ spoken' = spoken \o pass.said
                                \o (IF final # "" THEN <<final>> ELSE <<>>)
    /\ UNCHANGED invocations
    /\ UNCHANGED notGameVars

\* run() has called reset_game and is about to read its first frame
GameIdle ==
    /\ game = NewGame
    /\ gpc = "frame"
    /\ final_message = ""
    /\ spoken = <<>>
    /\ invocations = 0
    /\ passes = <<>>

\* the hands update_game_state can be called on: the stable hands of a table
PlayerHands == { <<>>, <<4>>, <<4, 6>>, <<3, 4, 6>>, <<5, 6>> }

DealerHands == { <<>>, <<2>>, <<1, 2>>, <<1, 3>>, <<1, 2, 3>> }

Phases == {"WAITING_FOR_CLEAR", "STARTING", "PLAYER_TURN", "DEALER_TURN", "GAME_OVER"}

\* the game at a call of update_game_state by run(): the hands are the
\* stable ones just seen, the remembered totals are those of the hands or not
GameAtCall(phase, announced, player_hand, dealer_hand, last_player, last_dealer) ==
    [NewGame EXCEPT !.game_phase = phase,
                    !.game_end_announced = announced,
                    !.player_hand = player_hand,
                    !.dealer_hand = dealer_hand,
                    !.last_seen_player_hand = player_hand,
                    !.last_seen_dealer_hand = dealer_hand,
                    !.current_stability_count = REQUIRED_STABILITY,
                    !.last_player_total = last_player,
                    !.last_dealer_total = last_dealer]

-----------------------------------------------------------------------------
(* betting_system.py: ChipManager, Bet, BettingManager *)
min_bet == 10
max_bet == 1000

\* ChipManager.__init__: the private counters (the transaction history,
\* which no method reads back into them, is left out)
ChipManager(initial) ==
    [balance |-> initial, total_wagered |-> 0, total_won |-> 0,
     total_lost |-> 0, largest_bet |-> 0]

get_net_profit(c) == c.total_won - c.total_lost

can_afford_any(c, amount) == TRUE

can_afford(c, amount) == c.balance >= amount

Chips(c, exc) == [chips |-> c, raised |-> exc]

deduct_chips(c, amount) ==
    IF amount <= 0 THEN Chips(c, "ValueError")
    ELSE IF ~can_afford(c, amount) THEN Chips(c, "InsufficientChipsError")
    ELSE Chips([c EXCEPT !.balance = @ - amount,
                         !.total_wagered = @ + amount,
                         !.largest_bet = IF amount > @ THEN amount ELSE @], "")

add_chips(c, amount, reason) ==
    IF amount <= 0 THEN Chips(c, "ValueError")
    ELSE Chips([c EXCEPT !.balance = @ + amount,
                         !.total_won = IF reason = "WINNINGS" THEN @ + amount ELSE @], "")

\* current_bet is None
NoBet ==
    [exists |-> FALSE, amount |-> 0, is_active |-> FALSE, outcome |-> "",
     payout |-> 0, can_double_down |-> FALSE, can_split |-> FALSE,
     is_doubled |-> FALSE]

\* Bet.__init__ for a positive amount
Bet(amount) ==
    [exists |-> TRUE, amount |-> amount, is_active |-> TRUE, outcome |-> "",
     payout |-> 0, can_double_down |-> TRUE, can_split |-> TRUE,
     is_doubled |-> FALSE]

Bet_can_double_down(b) == b.can_double_down /\ b.is_active

BetRaised(b, exc) == [bet |-> b, raised |-> exc]

Bet_double_down(b) ==
    IF ~Bet_can_double_down(b) THEN BetRaised(b, "ValueError")
    ELSE BetRaised([b EXCEPT !.amount = @ * 2,
                             !.is_doubled = TRUE,
                             !.can_double_down = FALSE,
                             !.can_split = FALSE], "")

BetOutcome == {"win", "loss", "push", "blackjack", "surrender"}

\* the payout of Bet.resolve: int(amount * 2.5) and amount // 2 round down
Payout(amount, bet_outcome) ==
    CASE bet_outcome = "win" -> amount * 2
      [] bet_outcome = "blackjack" -> (amount * 5) \div 2
      [] bet_outcome = "push" -> amount
      [] bet_outcome = "surrender" -> amount \div 2
      [] OTHER -> 0

Bet_resolve(b, bet_outcome) ==
    IF ~b.is_active THEN BetRaised(b, "ValueError")
    ELSE BetRaised([b EXCEPT !.outcome = bet_outcome,
                             !.is_active = FALSE,
                             !.payout = Payout(b.amount, bet_outcome)], "")

\* the BettingManager after a method, and the exception the method raised
Betting(c, b, exc) == [chips |-> c, bet |-> b, raised |-> exc]

place_bet(c, b, amount) ==
    IF b.exists /\ b.is_active THEN Betting(c, b, "ValueError")
    ELSE IF amount < min_bet THEN Betting(c, b, "ValueError")
    ELSE IF amount > max_bet THEN Betting(c, b, "ValueError")
    ELSE IF ~can_afford(c, amount) THEN Betting(c, b, "InsufficientChipsError")
    ELSE LET deducted == deduct_chips(c, amount)
         IN IF deducted.raised # "" THEN Betting(deducted.chips, b, deducted.raised)
            ELSE Betting(deducted.chips, Bet(amount), "")

double_down(c, b) ==
    IF ~b.exists \/ ~b.is_active THEN Betting(c, b, "ValueError")
    ELSE LET additional == b.amount
         IN IF ~can_afford(c, additional) THEN Betting(c, b, "InsufficientChipsError")
            ELSE LET deducted == deduct_chips(c, additional)
                     doubled == Bet_double_down(b)
                 IN IF deducted.raised # "" THEN Betting(deducted.chips, b, deducted.raised)
                    ELSE Betting(deducted.chips, doubled.bet, doubled.raised)

resolve_bet(c, b, bet_outcome) ==
    IF ~b.exists \/ ~b.is_active THEN Betting(c, b, "ValueError")
    ELSE LET resolved == Bet_resolve(b, bet_outcome)
             payout == resolved.bet.payout
         IN IF resolved.raised # "" THEN Betting(c, resolved.bet, resolved.raised)
            ELSE IF payout > 0
            THEN Betting(add_chips(c, payout, "WINNINGS").chips, resolved.bet, "")
            ELSE Betting(c, resolved.bet, "")

\* what the callers bet, and what they start with
BetAmounts == {5, 15, 1001}

InitialBalances == {0, 30, 1000}

Called(op, result) ==
    /\ chip_manager' = result.chips
    /\ current_bet' = result.bet
    /\ bet_result' = [op |-> op, raised |-> result.raised]

PlaceBet ==
    /\ placed < MaxBets
    /\ \E amount \in BetAmounts :
         LET result == place_bet(chip_manager, current_bet, amount)
         IN /\ Called("place_bet", result)
            /\ placed' = IF result.raised = "" THEN placed + 1 ELSE placed
    /\ UNCHANGED initial_balance
    /\ UNCHANGED notBetVars

DoubleDown ==
    /\ Called("double_down", double_down(chip_manager, current_bet))
    /\ UNCHANGED <<initial_balance, placed>>
    /\ UNCHANGED notBetVars

ResolveBet ==
    /\ \E bet_outcome \in BetOutcome :
         Called("resolve_bet", resolve_bet(chip_manager, current_bet, bet_outcome))
    /\ UNCHANGED <<initial_balance, placed>>
    /\ UNCHANGED notBetVars

ClearBet ==
    /\ Called("clear_bet", Betting(chip_manager, NoBet, ""))
    /\ UNCHANGED <<initial_balance, placed>>
    /\ UNCHANGED notBetVars

\* a BettingManager on a new ChipManager, nothing called yet
BetNew ==
    /\ chip_manager = ChipManager(initial_balance)
    /\ current_bet = NoBet
    /\ bet_result = [op |-> "none", raised |-> ""]
    /\ placed = 0

BetIdle == initial_balance = 1000 /\ BetNew

-----------------------------------------------------------------------------
(* achievement_system.py: Achievement and its subclasses, AchievementManager *)

\* Achievement.__init__ under a subclass: kind is the subclass, required its
\* threshold (a win rate in percent, playtime in hundredths of an hour)
Achievement(kind, required, min_games, achievement_id) ==
    [id |-> achievement_id, kind |-> kind, required |-> required,
     min_games |-> min_games, is_unlocked |-> FALSE,
     progress |-> 0, progress_max |-> 1]

\* AchievementManager._initialize_default_achievements, in insertion order
DefaultAchievements ==
    << Achievement("TotalWins", 1, 0, "first_win"),
       Achievement("Blackjack", 1, 0, "first_blackjack"),
       Achievement("WinStreak", 3, 0, "win_streak_3"),
       Achievement("TotalWins", 10, 0, "wins_10"),
       Achievement("Blackjack", 5, 0, "blackjacks_5"),
       Achievement("WinStreak", 5, 0, "win_streak_5"),
       Achievement("TotalWins", 50, 0, "wins_50"),
       Achievement("WinRate", 60, 20, "consistent_winner"),
       Achievement("WinStreak", 10, 0, "win_streak_10"),
       Achievement("TotalWins", 100, 0, "wins_100"),
       Achievement("Blackjack", 25, 0, "blackjacks_25"),
       Achievement("TotalWins", 500, 0, "wins_500"),
       Achievement("WinRate", 70, 50, "elite_player"),
       Achievement("Playtime", 1000, 0, "dedicated") >>

Min(a, b) == IF a <= b THEN a ELSE b

set_progress(a, current, maximum) ==
    [a EXCEPT !.progress = Min(current, maximum), !.progress_max = maximum]

unlock(a) ==
    IF ~a.is_unlocked
    THEN [a EXCEPT !.is_unlocked = TRUE, !.progress = a.progress_max]
    ELSE a

check_unlock_condition(a, gs) ==
    CASE a.kind = "WinStreak" -> gs.current_streak >= a.required
      [] a.kind = "TotalWins" -> gs.wins >= a.required
      [] a.kind = "Blackjack" -> gs.blackjacks >= a.required
      [] a.kind = "WinRate" -> gs.total_games >= a.min_games /\ gs.win_rate >= a.required
      [] a.kind = "Playtime" -> gs.total_playtime >= a.required

\* what update_progress hands to _set_progress; int(hours * 10) rounds down
CurrentProgress(a, gs) ==
    CASE a.kind = "WinStreak" -> gs.current_streak
      [] a.kind = "TotalWins" -> gs.wins
      [] a.kind = "Blackjack" -> gs.blackjacks
      [] a.kind = "WinRate" -> gs.total_games
      [] a.kind = "Playtime" -> gs.total_playtime \div 10

MaximumProgress(a) ==
    CASE a.kind = "WinRate" -> a.min_games
      [] a.kind = "Playtime" -> a.required \div 10
      [] OTHER -> a.required

update_progress(a, gs) ==
    LET set == set_progress(a, CurrentProgress(a, gs), MaximumProgress(a))
    IN IF check_unlock_condition(a, gs) THEN unlock(set) ELSE set

\* update_achievements reports an achievement when it is unlocked now and
\* was not before the call
is_newly_unlocked_again(now_unlocked, was_unlocked) == now_unlocked

is_newly_unlocked(now_unlocked, was_unlocked) == now_unlocked /\ ~was_unlocked

RECURSIVE NewlyFrom(_, _, _)
NewlyFrom(before, after, i) ==
    IF i > Len(before) THEN <<>>
    ELSE (IF is_newly_unlocked(after[i].is_unlocked, before[i].is_unlocked)
          THEN <<i>> ELSE <<>>) \o NewlyFrom(before, after, i + 1)

\* the statistics the callers pass: around the thresholds of the defaults
GameStats ==
    [current_streak : {0, 3, 10}, wins : {0, 1, 500}, blackjacks : {0, 5},
     total_games : {0, 50}, win_rate : {0, 65}, total_playtime : {0, 555, 1000}]

NoStats ==
    [current_streak |-> 0, wins |-> 0, blackjacks |-> 0, total_games |-> 0,
     win_rate |-> 0, total_playtime |-> 0]

\* the counters of a player's statistics never go down between two calls;
\* the current streak and the win rate do
Cumulative(old, new) ==
    /\ new.wins >= old.wins
    /\ new.blackjacks >= old.blackjacks
    /\ new.total_games >= old.total_games
    /\ new.total_playtime >= old.total_playtime

InSeq(x, seq) == \E k \in 1..Len(seq) : seq[k] = x

\* update_achievements with one unlock callback registered, which counts
UpdateAchievements ==
    /\ updates < MaxUpdates
    /\ \E gs \in GameStats :
         /\ Cumulative(game_stats, gs)
         /\ game_stats' = gs
    /\ achievements' = [i \in 1..Len(achievements) |->
                           update_progress(achievements[i], game_stats')]
    /\ newly_unlocked' = NewlyFrom(achievements, achievements', 1)
    /\ notifications' = [i \in 1..Len(achievements) |->
                            IF InSeq(i, newly_unlocked') THEN notifications[i] + 1
                            ELSE notifications[i]]
    /\ satisfied' = [i \in 1..Len(achievements) |->
                        satisfied[i] \/ check_unlock_condition(achievements[i], game_stats')]
    /\ updates' = updates + 1
    /\ UNCHANGED notAchVars

\* a new AchievementManager
AchIdle ==
    /\ achievements = DefaultAchievements
    /\ game_stats = NoStats
    /\ newly_unlocked = <<>>
    /\ notifications = [i \in 1..Len(DefaultAchievements) |-> 0]
    /\ satisfied = [i \in 1..Len(DefaultAchievements) |-> FALSE]
    /\ updates = 0

-----------------------------------------------------------------------------
(* tts_module.py: AudioManager, its speaker thread and a caller of
   speak_and_wait; the say command is taken to run and to end *)

\* a text: its body between leading and trailing blanks
Text(lead, body, trail) == [lead |-> lead, body |-> body, trail |-> trail]

strip(text) == text.body

\* if text and text.strip()
Speakable(text) ==
    /\ text.lead + text.trail > 0 \/ text.body # ""
    /\ strip(text) # ""

Texts == { Text(0, "", 0), Text(1, "", 1), Text(0, "You stand.", 0), Text(1, "Dealer busts.", 0) }

\* timeouts of wait_for_speech, in sleeps of the waiting loop
Timeouts == {1, 2}

\* speak: queue the stripped text, return at once; the caller then enters
\* wait_for_speech and notes start_time
SpeakThenWait ==
    /\ cpc = "idle"
    /\ speaks < MaxSpeaks
    /\ \E text \in Texts, timeout \in Timeouts :
         /\ speak_queue' = IF Speakable(text)
                           THEN Append(speak_queue, [id |-> speaks + 1, text |-> strip(text)])
                           ELSE speak_queue
         /\ awaited' = IF Speakable(text) THEN speaks + 1 ELSE 0
         /\ wait_timeout' = timeout
    /\ elapsed' = 0
    /\ speaks' = speaks + 1
    /\ cpc' = "wait"
    /\ UNCHANGED <<current_speech_process, speech_lock, spc, taken, finished>>
    /\ UNCHANGED <<probe, immediate>>
    /\ UNCHANGED notTtsVars

\* is_speaking, once it holds speech_lock
is_speaking == current_speech_process # ""

\* one round of the loop of wait_for_speech: is_speaking takes speech_lock,
\* which the speaker thread holds for as long as it speaks
WaitForSpeech ==
    /\ cpc = "wait"
    /\ speech_lock = ""
    /\ cpc' = IF is_speaking
              THEN (IF elapsed > wait_timeout THEN "returned" ELSE "wait")
              ELSE "returned"
    /\ UNCHANGED <<speak_queue, current_speech_process, speech_lock, spc, taken,
                   finished, awaited, wait_timeout, elapsed, speaks>>
    /\ UNCHANGED <<probe, immediate>>
    /\ UNCHANGED notTtsVars

\* time passes for the waiting caller
Tick ==
    /\ cpc = "wait"
    /\ elapsed < MaxTicks
    /\ elapsed' = elapsed + 1
    /\ UNCHANGED <<speak_queue, current_speech_process, speech_lock, spc, taken,
                   finished, awaited, wait_timeout, cpc, speaks>>
    /\ UNCHANGED <<probe, immediate>>
    /\ UNCHANGED notTtsVars

\* speak_and_wait sleeps wait_time and returns to the game
Continue ==
    /\ cpc = "returned"
    /\ cpc' = "idle"
    /\ UNCHANGED <<speak_queue, current_speech_process, speech_lock, spc, taken,
                   finished, awaited, wait_timeout, elapsed, speaks>>
    /\ UNCHANGED <<probe, immediate>>
    /\ UNCHANGED notTtsVars

\* _speak_loop: text = self.speak_queue.get(timeout=0.5)
SpeakLoopGet ==
    /\ spc = "get"
    /\ speak_queue # <<>>
    /\ taken' = Head(speak_queue)
    /\ speak_queue' = Tail(speak_queue)
    /\ spc' = "lock"
    /\ UNCHANGED <<current_speech_process, speech_lock, finished, awaited,
                   wait_timeout, elapsed, cpc, speaks>>
    /\ UNCHANGED <<probe, immediate>>
    /\ UNCHANGED notTtsVars

\* _speak_loop: with self.speech_lock, start say with Popen
SpeakLoopStart ==
    /\ spc = "lock"
    /\ speech_lock = ""
    /\ speech_lock' = "speaker"
    /\ current_speech_process' = taken.text
    /\ spc' = "say"
    /\ UNCHANGED <<speak_queue, taken, finished, awaited, wait_timeout, elapsed, cpc, speaks>>
    /\ UNCHANGED <<probe, immediate>>
    /\ UNCHANGED notTtsVars

\* _speak_loop: say has ended; finally clears the process, the lock is released
SpeakLoopDone ==
    /\ spc = "say"
    /\ finished' = Append(finished, taken.id)
    /\ current_speech_process' = ""
    /\ speech_lock' = ""
    /\ spc' = "get"
    /\ UNCHANGED <<speak_queue, taken, awaited, wait_timeout, elapsed, cpc, speaks>>
    /\ UNCHANGED <<probe, immediate>>
    /\ UNCHANGED notTtsVars

\* a caller's is_speaking(): with self.speech_lock is reached while the
\* speaker thread is where it is; probe notes what was running at the call
IsSpeakingCall ==
    /\ cpc = "idle"
    /\ cpc' = "is_speaking"
    /\ probe' = [ at |-> "called", running |-> current_speech_process # "",
                  done |-> Len(finished), result |-> FALSE, done_at_return |-> Len(finished) ]
    /\ UNCHANGED <<speak_queue, current_speech_process, speech_lock, spc, taken,
                   finished, awaited, wait_timeout, elapsed, speaks, immediate>>
    /\ UNCHANGED notTtsVars

\* is_speaking gets speech_lock, reads current_speech_process and returns
IsSpeakingReturn ==
    /\ cpc = "is_speaking"
    /\ speech_lock = ""
    /\ probe' = [probe EXCEPT !.at = "returned", !.result = is_speaking,
                              !.done_at_return = Len(finished)]
    /\ cpc' = "idle"
    /\ UNCHANGED <<speak_queue, current_speech_process, speech_lock, spc, taken,
                   finished, awaited, wait_timeout, elapsed, speaks, immediate>>
    /\ UNCHANGED notTtsVars

\* speak_immediate: return on a blank text; else empty speak_queue with
\* get_nowait and put the stripped text. immediate notes the call: the
\* message the speaker thread was saying (interrupted) or had taken from the
\* queue and not started (pending), and how many speeches had ended
SpeakImmediate ==
    /\ cpc = "idle"
    /\ speaks < MaxSpeaks
    /\ \E text \in Texts :
         IF Speakable(text)
         THEN /\ speak_queue' = << [id |-> speaks + 1, text |-> strip(text)] >>
              /\ immediate' = [ id |-> speaks + 1,
                                interrupted |-> IF spc = "say" THEN taken.id ELSE 0,
                                pending |-> IF spc = "lock" THEN taken.id ELSE 0,
                                discarded |-> { speak_queue[i].id : i \in 1..Len(speak_queue) },
                                done_before |-> Len(finished) ]
         ELSE UNCHANGED <<speak_queue, immediate>>
    /\ speaks' = speaks + 1
    /\ UNCHANGED <<current_speech_process, speech_lock, spc, taken, finished,
                   cpc, awaited, wait_timeout, elapsed, probe>>
    /\ UNCHANGED notTtsVars

\* a new AudioManager: the speaker thread waits on the empty queue
TtsIdle ==
    /\ speak_queue = <<>>
    /\ current_speech_process = ""
    /\ speech_lock = ""
    /\ spc = "get"
    /\ taken = [id |-> 0, text |-> ""]
    /\ finished = <<>>
    /\ cpc = "idle"
    /\ awaited = 0
    /\ wait_timeout = 0
    /\ elapsed = 0
    /\ speaks = 0
    /\ probe = [ at |-> "none", running |-> FALSE, done |-> 0, result |-> FALSE,
                 done_at_return |-> 0 ]
    /\ immediate = [ id |-> 0, interrupted |-> 0, pending |-> 0, discarded |-> {},
                     done_before |-> 0 ]

\* the subsystems added after the game: not in use
MoreIdle == BetIdle /\ AchIdle /\ TtsIdle

-----------------------------------------------------------------------------
(* Specifications *)
\* a directory holding one readable .jpg file per template of the two stores
FilesOf(store) == [i \in 1..Len(store) |-> File(<<store[i].name, "jpg">>, store[i].img)]

DirOf(ranks, suits) == Dir(TRUE, FilesOf(ranks), TRUE, FilesOf(suits))

\* the detector as __init__ leaves it for the directory dir
Constructed(dir) ==
    /\ templates_dir = load_templates(dir).dir
    /\ rank_templates = load_templates(dir).rank_templates
    /\ suit_templates = load_templates(dir).suit_templates

DetectFresh ==
    /\ card_contours = <<>>
    /\ idx = 1
    /\ detected_cards = <<>>
    /\ raised = FALSE
    /\ outcome = <<>>
    /\ calls = 0

DetectIdle ==
    /\ pc = "idle"
    /\ config = DefaultConfig
    /\ DetectFresh

OrderIdle ==
    /\ pts = <<>>
    /\ rect = <<>>
    /\ opc = "none"
    /\ StatsIdle
    /\ ProfileIdle
    /\ GameIdle
    /\ MoreIdle

\* the detection pipeline over loaded template stores and frames
Init ==
    /\ \E ranks \in TemplateStores({"Ace", "King"}, RankTemplateImages),
          suits \in TemplateStores({"Spades"}, SuitTemplateImages) :
            Constructed(DirOf(ranks, suits))
    /\ frame \in Frames(DetectContours)
    /\ DetectIdle
    /\ OrderIdle

Next == DetectNext

Spec == Init /\ [][Next]_vars

\* construction over template directories, then detection
InitLoad ==
    /\ pc = "new"
    /\ rank_templates = <<>>
    /\ suit_templates = <<>>
    /\ templates_dir \in TemplateDirs
    /\ config = DefaultConfig
    /\ frame \in Frames(LoadContours)
    /\ DetectFresh
    /\ OrderIdle

NextLoad == Construct \/ DetectNext

SpecLoad == InitLoad /\ [][NextLoad]_vars

\* construction and detection under every admission window
InitConfig ==
    /\ pc = "new"
    /\ rank_templates = <<>>
    /\ suit_templates = <<>>
    /\ templates_dir \in {MissingDir, DirOf(<< [name |-> "Ace", img |-> Image(RANK_WIDTH, RANK_HEIGHT, InkA)] >>, <<>>)}
    /\ config \in Configs
    /\ frame \in Frames(DetectContours)
    /\ DetectFresh
    /\ OrderIdle

SpecConfig == InitConfig /\ [][NextLoad]_vars

\* several calls of detect_and_identify_cards on one detector
InitCalls ==
    /\ \E ranks \in CallStores : 
          Constructed(DirOf(ranks, << [name |-> "Spades", img |-> Image(SUIT_WIDTH, SUIT_HEIGHT, InkA)] >>))
    /\ frame \in Frames(CallContours)
    /\ DetectIdle
    /\ OrderIdle

NextCalls == DetectNext \/ NewCall

SpecCalls == InitCalls /\ [][NextCalls]_vars

\* a detector that is not in use
DetectorIdle ==
    /\ Constructed(EmptyDir)
    /\ frame = <<>>
    /\ DetectIdle
    /\ pts = <<>>
    /\ rect = <<>>
    /\ opc = "none"

\* record_game_result on one GameStatistics object
InitStats == DetectorIdle /\ StatsIdle /\ ProfileIdle /\ GameIdle /\ MoreIdle

NextStats == RecordGameResult

SpecStats == InitStats /\ [][NextStats]_vars

\* a ProfileManager on a directory, and managers constructed on it later
InitProfile == DetectorIdle /\ StatsIdle /\ ProfileIdle /\ GameIdle /\ MoreIdle

NextProfile ==
    \/ CreateProfile
    \/ RecordGame
    \/ SetCurrentProfile
    \/ SaveCurrentProfile
    \/ SaveAllProfiles
    \/ DeleteProfile
    \/ NewManager

SpecProfile == InitProfile /\ [][NextProfile]_vars

\* run() of BlackjackGame over the frames the detector reports
InitRun == DetectorIdle /\ StatsIdle /\ ProfileIdle /\ GameIdle /\ MoreIdle

NextRun == Frame \/ UpdatePass

SpecRun == InitRun /\ [][NextRun]_vars

\* one call of update_game_state from every phase, flag and pair of stable hands
InitUpdate ==
    /\ DetectorIdle /\ StatsIdle /\ ProfileIdle /\ MoreIdle
    /\ \E phase \in Phases, announced \in BOOLEAN,
          player_hand \in PlayerHands, dealer_hand \in DealerHands :
          \E last_player \in {0, calculate_hand_value(player_hand)},
             last_dealer \in {0, calculate_hand_value(dealer_hand)} :
             game = GameAtCall(phase, announced, player_hand, dealer_hand,
                               last_player, last_dealer)
    /\ gpc = "update"
    /\ final_message = ""
    /\ spoken = <<>>
    /\ invocations = 1
    /\ passes = <<>>

NextUpdate == UpdatePass

SpecUpdate == InitUpdate /\ [][NextUpdate]_vars

\* a BettingManager on a ChipManager of every starting balance
InitBet ==
    /\ DetectorIdle /\ StatsIdle /\ ProfileIdle /\ GameIdle /\ AchIdle /\ TtsIdle
    /\ initial_balance \in InitialBalances
    /\ BetNew

NextBet == PlaceBet \/ DoubleDown \/ ResolveBet \/ ClearBet

SpecBet == InitBet /\ [][NextBet]_vars

\* update_achievements calls on a new AchievementManager
InitAch == DetectorIdle /\ StatsIdle /\ ProfileIdle /\ GameIdle /\ MoreIdle

\* a caller of speak_and_wait beside the speaker thread of an AudioManager
InitTts == DetectorIdle /\ StatsIdle /\ ProfileIdle /\ GameIdle /\ MoreIdle

NextTts ==
    \/ SpeakThenWait
    \/ WaitForSpeech
    \/ Tick
    \/ Continue
    \/ SpeakLoopGet
    \/ SpeakLoopStart
    \/ SpeakLoopDone
    \/ IsSpeakingCall
    \/ IsSpeakingReturn
    \/ SpeakImmediate

SpecTts == InitTts /\ [][NextTts]_vars

NextAch == UpdateAchievements

SpecAch == InitAch /\ [][NextAch]_vars

\* find_cards over contours around its admission limits
InitFind ==
    /\ Constructed(DirOf(<< [name |-> "Ace", img |-> Image(RANK_WIDTH, RANK_HEIGHT, InkA)] >>,
                         << [name |-> "Spades", img |-> Image(SUIT_WIDTH, SUIT_HEIGHT, InkA)] >>))
    /\ frame \in Frames(FindContours)
    /\ DetectIdle
    /\ OrderIdle

SpecFind == InitFind /\ [][Next]_vars

\* find_cards over images whose contours lie inside one another
InitNested ==
    /\ Constructed(DirOf(<< [name |-> "Ace", img |-> Image(RANK_WIDTH, RANK_HEIGHT, InkA)] >>,
                         << [name |-> "Spades", img |-> Image(SUIT_WIDTH, SUIT_HEIGHT, InkA)] >>))
    /\ frame \in NestedFrames(NestContours)
    /\ DetectIdle
    /\ OrderIdle

SpecNested == InitNested /\ [][Next]_vars

\* order_points over every four points of the grid
InitOrder ==
    /\ pts \in [1..4 -> Grid]
    /\ rect = <<>>
    /\ opc = "call"
    /\ Constructed(EmptyDir)
    /\ frame = <<>>
    /\ DetectIdle
    /\ StatsIdle
    /\ ProfileIdle
    /\ GameIdle
    /\ MoreIdle

NextOrder == OrderPoints

SpecOrder == InitOrder /\ [][NextOrder]_vars

-----------------------------------------------------------------------------
(* Properties *)

\* the contour a record was made from
Source(rec) == frame[rec.contour]

SmallestDiff(img, templates, regionPx) ==
    LET D == { image_diff(img, templates[i].img, regionPx) : i \in 1..Len(templates) }
    IN CHOOSE d \in D : \A e \in D : d <= e

RankAbove(rec) ==
    /\ rank_templates # <<>>
    /\ SmallestDiff(isolate_rank(Source(rec).rank_img), rank_templates, RankRegionPx) > RANK_DIFF_MAX
SuitAbove(rec) ==
    /\ suit_templates # <<>>
    /\ SmallestDiff(isolate_suit(Source(rec).suit_img), suit_templates, SuitRegionPx) > SUIT_DIFF_MAX

Records == { detected_cards[k] : k \in 1..Len(detected_cards) }

\* C1: whenever the smallest difference between a glyph and the loaded rank
\* templates exceeds RANK_DIFF_MAX the record's rank is "Unknown", and the
\* same for the suit with SUIT_DIFF_MAX.
C1_UnknownAboveThreshold ==
    \A rec \in Records :
        /\ RankAbove(rec) => rec.rank = "Unknown"
        /\ SuitAbove(rec) => rec.suit = "Unknown"

C1_Witness ==
    \E rec \in Records :
        /\ RankAbove(rec) /\ rec.rank = "Unknown"
        /\ SuitAbove(rec) /\ rec.suit = "Unknown"

ClippedConfidence(diff, max) ==
    IF ~diff.fin \/ diff.v > max THEN [fin |-> TRUE, num |-> 0, den |-> max]
    ELSE [fin |-> TRUE, num |-> max - diff.v, den |-> max]

InUnit(c) == c.fin /\ 0 <= c.num /\ c.num <= c.den

\* C2: every record's rank_confidence and suit_confidence lie in [0,1] and
\* equal max(0, 1 - best_diff/threshold) of the difference the matcher returned.
C2_ConfidenceClipped ==
    \A rec \in Records :
        /\ InUnit(rec.rank_confidence)
        /\ InUnit(rec.suit_confidence)
        /\ rec.rank_confidence =
             ClippedConfidence(match_rank(isolate_rank(Source(rec).rank_img), rank_templates).diff,
                               RANK_DIFF_MAX)
        /\ rec.suit_confidence =
             ClippedConfidence(match_suit(isolate_suit(Source(rec).suit_img), suit_templates).diff,
                               SUIT_DIFF_MAX)

Zero(max) == [fin |-> TRUE, num |-> 0, den |-> max]

\* C3: a record whose rank is "Unknown" has rank_confidence exactly 0.0, and
\* a record whose suit is "Unknown" has suit_confidence exactly 0.0.
C3_UnknownHasZeroConfidence ==
    \A rec \in Records :
        /\ rec.rank = "Unknown" => rec.rank_confidence = Zero(RANK_DIFF_MAX)
        /\ rec.suit = "Unknown" => rec.suit_confidence = Zero(SUIT_DIFF_MAX)

OkCandidates == { i \in 1..Len(outcome) : outcome[i] = "ok" }

\* nothing in the processing of this candidate can raise
CannotFail(c) ==
    /\ ~Singular(order_points(c.approx))
    /\ ~MatchRaises(isolate_rank(c.rank_img), rank_templates)
    /\ ~MatchRaises(isolate_suit(c.suit_img), suit_templates)

\* C4: when the processing of a candidate raises, the call still returns
\* normally with one record, in candidate order, for every candidate whose
\* processing did not raise.
C4_CandidatesIndependent ==
    pc = "done" =>
        /\ ~raised
        /\ Len(outcome) = Len(card_contours)
        /\ Len(detected_cards) = Cardinality(OkCandidates)
        /\ \A i \in OkCandidates :
             \E k \in 1..Len(detected_cards) :
                 /\ detected_cards[k].contour = card_contours[i].id
                 /\ k = Cardinality({ j \in OkCandidates : j <= i })
        /\ \A i \in 1..Len(card_contours) :
             CannotFail(card_contours[i]) => i \in OkCandidates

C4_Witness ==
    /\ pc = "done"
    /\ \E i, j \in 1..Len(outcome) :
         i < j /\ outcome[i] = "error" /\ outcome[j] = "ok"
    /\ Len(detected_cards) = 1

\* C5: a candidate whose corner points give a singular homography produces
\* no record and raises nothing, and a well-formed candidate of the same
\* frame yields exactly one record.
C5_DegenerateRejected ==
    pc = "done" =>
        /\ ~raised
        /\ \A i \in 1..Len(card_contours) :
             LET n == Cardinality({ k \in 1..Len(detected_cards) :
                                      detected_cards[k].contour = card_contours[i].id })
             IN IF Singular(order_points(card_contours[i].approx))
                THEN n = 0
                ELSE CannotFail(card_contours[i]) => n = 1

IsRectangle(p) ==
    /\ Cardinality({ p[i] : i \in 1..4 }) = 4
    /\ \E f \in Permutations(1..4) :
         LET a == p[f[1]]  b == p[f[2]]  c == p[f[3]]  d == p[f[4]]
         IN /\ b[1] - a[1] = c[1] - d[1]
            /\ b[2] - a[2] = c[2] - d[2]
            /\ (b[1] - a[1]) * (d[1] - a[1]) + (b[2] - a[2]) * (d[2] - a[2]) = 0

Permuted(p, f) == [i \in 1..4 |-> p[f[i]]]

\* C6: for every permutation of the four corners of a rectangle,
\* order_points returns the same sequence, whose first point has the minimal
\* x+y and whose third point has the maximal x+y of the four.
C6_OrderIndependentOfPermutation ==
    (opc = "ret" /\ IsRectangle(pts)) =>
        /\ \A f \in Permutations(1..4) : order_points(Permuted(pts, f)) = rect
        /\ \A i \in 1..4 : PSum(rect[1]) <= PSum(pts[i]) /\ PSum(pts[i]) <= PSum(rect[3])

\* C7 as stated, on the corners of a rectangle: position 1 holds the point
\* of minimum x-y and position 3 the point of maximum x-y.
C7_Original ==
    (opc = "ret" /\ IsRectangle(pts)) =>
        \A i \in 1..4 :
            /\ PDiffXY(rect[2]) <= PDiffXY(pts[i])
            /\ PDiffXY(pts[i]) <= PDiffXY(rect[4])

\* C7, amended: position 1 (top-right) holds the first input point of
\* minimum y-x, that is of maximum x-y, and position 3 (bottom-left) the
\* first input point of maximum y-x, that is of minimum x-y.
C7_DiffIsYMinusX ==
    opc = "ret" =>
        /\ \E i \in 1..4 :
             /\ rect[2] = pts[i]
             /\ \A j \in 1..4 : pts[j][2] - pts[j][1] >= pts[i][2] - pts[i][1]
             /\ \A j \in 1..(i - 1) : pts[j][2] - pts[j][1] > pts[i][2] - pts[i][1]
        /\ \E i \in 1..4 :
             /\ rect[4] = pts[i]
             /\ \A j \in 1..4 : pts[j][2] - pts[j][1] <= pts[i][2] - pts[i][1]
             /\ \A j \in 1..(i - 1) : pts[j][2] - pts[j][1] < pts[i][2] - pts[i][1]

C7_Witness ==
    /\ opc = "ret"
    /\ IsRectangle(pts)
    /\ rect[2][1] - rect[2][2] > rect[4][1] - rect[4][2]
    /\ rect[2] = <<GridMax, 0>>
    /\ rect[4] = <<0, GridMax - 1>>

InFrame(c) == \E i \in 1..Len(frame) : frame[i] = c
Returned(c) == \E i \in 1..Len(card_contours) : card_contours[i] = c
Found == pc # "idle"

\* C8: every candidate find_cards returns has an area within
\* [CARD_MIN_AREA, CARD_MAX_AREA], a bounding-box aspect ratio w/h within
\* (0.4, 1.0) and a polygon approximation of exactly 4 vertices.
C8_CandidatesAdmissible ==
    \A i \in 1..Len(card_contours) :
        LET c == card_contours[i]
        IN /\ CARD_MIN_AREA <= c.area /\ c.area <= CARD_MAX_AREA
           /\ 2 * c.bbox.h < 5 * c.bbox.w /\ c.bbox.w < c.bbox.h
           /\ Len(c.approx) = 4
           /\ InFrame(c)

C8_Witness ==
    /\ Found
    /\ Len(card_contours) = 1
    /\ \E i \in 1..Len(frame) : frame[i].area > CARD_MAX_AREA
    /\ \E i \in 1..Len(frame) : Len(frame[i].approx) # 4 \/ frame[i].bbox.w >= frame[i].bbox.h

AspectInRange(c) == 2 * c.bbox.h < 5 * c.bbox.w /\ c.bbox.w < c.bbox.h

CardShaped(c) ==
    \/ 2 * c.bbox.h < 5 * c.bbox.w /\ c.bbox.w < c.bbox.h
    \/ 2 * c.bbox.w < 5 * c.bbox.h /\ c.bbox.h < c.bbox.w

ValidQuad(c) == Len(c.approx) = 4 /\ CARD_MIN_AREA < c.area /\ c.area < CARD_MAX_AREA

\* C10 as stated: a four-vertex region of valid area is accepted when it is
\* taller than wide and also when the same card shape is wider than tall.
C10_Original ==
    Found =>
        \A i \in 1..Len(frame) :
            (ValidQuad(frame[i]) /\ CardShaped(frame[i])) => Returned(frame[i])

\* C10, amended: the range admits one orientation only: a four-vertex region
\* of valid area is accepted when it is taller than wide with w/h above 0.4,
\* and rejected whenever it is as wide as tall or wider.
C10_PortraitOnly ==
    Found =>
        \A i \in 1..Len(frame) :
            LET c == frame[i]
            IN ValidQuad(c) =>
                 /\ (2 * c.bbox.h < 5 * c.bbox.w /\ c.bbox.w < c.bbox.h) => Returned(c)
                 /\ c.bbox.w >= c.bbox.h => ~Returned(c)

C10_Witness ==
    /\ Found
    /\ \E i, j \in 1..Len(frame) :
         /\ ValidQuad(frame[i]) /\ ValidQuad(frame[j])
         /\ frame[i].bbox.w = frame[j].bbox.h /\ frame[i].bbox.h = frame[j].bbox.w
         /\ frame[i].bbox.w < frame[i].bbox.h
         /\ Returned(frame[i]) /\ ~Returned(frame[j])

-----------------------------------------------------------------------------
\* C11: a detector constructed on a templates directory that did not exist
\* has both template maps empty, raises nothing, and every record it returns
\* has rank "Unknown" and suit "Unknown".
C11_MissingDirGivesUnknown ==
    (pc # "new" /\ templates_dir.created) =>
        /\ rank_templates = <<>>
        /\ suit_templates = <<>>
        /\ ~raised
        /\ \A i \in DOMAIN detected_cards :
              detected_cards[i].rank = "Unknown" /\ detected_cards[i].suit = "Unknown"

C11_Witness ==
    /\ pc = "done"
    /\ templates_dir.created
    /\ Len(detected_cards) >= 1

-----------------------------------------------------------------------------
\* C12: when the isolated glyph is pixel-for-pixel identical to one stored
\* template of its kind, the record carries that template's name and a
\* confidence of exactly 1.0 (difference 0).
One(c) == c.fin /\ c.num = c.den

Identical(img, templates, i) ==
    /\ templates[i].img = img
    /\ \A j \in DOMAIN templates : j # i => templates[j].img # img

C12_IdenticalTemplateWins ==
    \A k \in DOMAIN detected_cards :
        LET rec == detected_cards[k]
            rank_sized == isolate_rank(Source(rec).rank_img)
            suit_sized == isolate_suit(Source(rec).suit_img)
        IN /\ \A i \in DOMAIN rank_templates :
                 Identical(rank_sized, rank_templates, i) =>
                     rec.rank = rank_templates[i].name /\ One(rec.rank_confidence)
           /\ \A i \in DOMAIN suit_templates :
                 Identical(suit_sized, suit_templates, i) =>
                     rec.suit = suit_templates[i].name /\ One(rec.suit_confidence)

-----------------------------------------------------------------------------
\* C13: a rank or suit sub-region without any contour gives a blank glyph of
\* the standard size, and the record made from that blank glyph carries
\* "Unknown", whatever templates are loaded.
NoContour(region) == region.cnts = 0

C13_BlankGlyphIsUnknown ==
    \A k \in DOMAIN detected_cards :
        LET rec == detected_cards[k]
            card_info == Source(rec)
        IN /\ NoContour(card_info.rank_img) =>
                /\ isolate_rank(card_info.rank_img) = Zeros(RANK_WIDTH, RANK_HEIGHT)
                /\ rec.rank = "Unknown"
           /\ NoContour(card_info.suit_img) =>
                /\ isolate_suit(card_info.suit_img) = Zeros(SUIT_WIDTH, SUIT_HEIGHT)
                /\ rec.suit = "Unknown"

-----------------------------------------------------------------------------
\* C14: detect_and_identify_cards keeps no state between calls: no step of a
\* call changes rank_templates, suit_templates or the configuration, and the
\* list a call returns is the one computed from that call's frame alone,
\* whatever calls came before it.
RECURSIVE InIsolation(_, _, _)
InIsolation(candidates, outcomes, i) ==
    IF i > Len(candidates) THEN <<>>
    ELSE LET c == candidates[i]
             rec == Record(c, match_rank(isolate_rank(c.rank_img), rank_templates),
                              match_suit(isolate_suit(c.suit_img), suit_templates))
         IN (IF outcomes[i] = "ok" THEN <<rec>> ELSE <<>>)
            \o InIsolation(candidates, outcomes, i + 1)

ReturnedInIsolation ==
    pc = "done" => detected_cards = InIsolation(find_cards(frame), outcome, 1)

-----------------------------------------------------------------------------
\* C15: every record carries the contour and the bbox of one candidate of
\* find_cards for the frame, the records follow the order of their
\* candidates (so two records never come from one candidate), and a frame
\* without candidates returns the empty list without an error.
CandidateOf(rec) ==
    CHOOSE j \in DOMAIN card_contours : card_contours[j].id = rec.contour

C15_RecordsFromCandidates ==
    /\ \A k \in DOMAIN detected_cards :
          \E j \in DOMAIN card_contours :
              /\ card_contours[j].id = detected_cards[k].contour
              /\ card_contours[j].bbox = detected_cards[k].bbox
              /\ card_contours[j] = find_cards(frame)[j]
    /\ \A k1, k2 \in DOMAIN detected_cards :
          k1 < k2 => CandidateOf(detected_cards[k1]) < CandidateOf(detected_cards[k2])
    /\ (pc = "done" /\ find_cards(frame) = <<>>) => (detected_cards = <<>> /\ ~raised)

C15_Witness ==
    /\ pc = "done"
    /\ Len(detected_cards) = 2
    /\ detected_cards[1].contour # detected_cards[2].contour

-----------------------------------------------------------------------------
\* C16: find_cards returns its candidates by non-increasing area, and
\* candidates of equal area in the order they were discovered in the frame.
C16_SortedByAreaStable ==
    \A i, j \in DOMAIN card_contours :
        i < j => /\ card_contours[i].area >= card_contours[j].area
                 /\ card_contours[i].area = card_contours[j].area =>
                        card_contours[i].id < card_contours[j].id

C16_Witness ==
    /\ pc = "loop"
    /\ Len(card_contours) = 2
    /\ card_contours[1].area = card_contours[2].area
    /\ card_contours[1].bbox # card_contours[2].bbox

-----------------------------------------------------------------------------
\* C17: a detector whose area admission window is malformed (empty, zero or
\* negative) does not get past its construction: the error is raised there,
\* so no detection ever runs under such a window.
Malformed(cfg) ==
    \/ cfg.CARD_MIN_AREA >= cfg.CARD_MAX_AREA
    \/ cfg.CARD_MIN_AREA <= 0
    \/ cfg.CARD_MAX_AREA <= 0

C17_MalformedConfigRejected == Malformed(config) => pc = "new"

-----------------------------------------------------------------------------
\* C18: after create_profile(name), games recorded on the returned profile
\* and save_current_profile(), a new ProfileManager on the same directory
\* holds a profile of that name whose total_games is the number of games
\* recorded.
C18_SavedProfileReloads ==
    scenario.stage = "reloaded" =>
        /\ profiles[scenario.name] # 0
        /\ heap[profiles[scenario.name]].name = scenario.name
        /\ heap[profiles[scenario.name]].statistics.total_games = scenario.recorded

-----------------------------------------------------------------------------
\* C19: on a GameStatistics object, a 'loss' sets current_streak to 0 and
\* leaves longest_streak as it was, a 'win' raises current_streak by one, and
\* longest_streak is always the largest value current_streak ever had (so it
\* is never below current_streak).
IsWin == stats'.wins = stats.wins + 1
IsLoss == stats'.losses = stats.losses + 1

C19_StreakStep ==
    /\ IsLoss => (stats'.current_streak = 0 /\ stats'.longest_streak = stats.longest_streak)
    /\ IsWin => stats'.current_streak = stats.current_streak + 1
    /\ stats'.longest_streak = peak'
    /\ stats'.longest_streak >= stats'.current_streak

C19_Streaks == [][C19_StreakStep]_vars

C19_Witness ==
    /\ stats.losses >= 1
    /\ stats.current_streak = 0
    /\ stats.longest_streak = 2
    /\ stats.total_games = 3

-----------------------------------------------------------------------------
\* C20: run() invokes update_game_state once for a change of the observed
\* hands that then stays for REQUIRED_STABILITY frames, and never again while
\* the observed hands remain as they are.
C20_OncePerStableChange == invocations <= 1

\* C21: from every phase, flag and pair of stable hands the loop of
\* update_game_state ends after a bounded number of passes, and no pass of one
\* call begins in a phase an earlier pass of that call began in
C21_NoPhaseTwice ==
    /\ \A i, j \in 1..Len(passes) : passes[i].phase = passes[j].phase => i = j
    /\ Len(passes) <= Cardinality(Phases)
    /\ gpc = "update" => \A i \in 1..Len(passes) : passes[i].phase # game.game_phase

\* a call that chained from GAME_OVER through two more phases and returned
C21_Witness ==
    /\ gpc = "frame"
    /\ Len(passes) = 3
    /\ passes[1].phase = "GAME_OVER"
    /\ passes[3].phase = "STARTING"

\* the steps of the phase cycle, and the shortcut of a busted player
PhaseSteps ==
    { <<"WAITING_FOR_CLEAR", "STARTING">>, <<"STARTING", "PLAYER_TURN">>,
      <<"PLAYER_TURN", "DEALER_TURN">>, <<"DEALER_TURN", "GAME_OVER">>,
      <<"GAME_OVER", "WAITING_FOR_CLEAR">>, <<"PLAYER_TURN", "GAME_OVER">> }

C22_Step ==
    game'.game_phase # game.game_phase =>
        LET from == game.game_phase
            to == game'.game_phase
            player == calculate_hand_value(game.player_hand)
            dealer == calculate_hand_value(game.dealer_hand)
        IN /\ <<from, to>> \in PhaseSteps
           /\ (from = "PLAYER_TURN" /\ to = "GAME_OVER") => player > 21
           /\ to = "PLAYER_TURN" =>
                 Len(game.player_hand) = 2 /\ Len(game.dealer_hand) = 1
           /\ (from = "DEALER_TURN" /\ to = "GAME_OVER") => dealer >= 17
           /\ from = "GAME_OVER" =>
                 Len(game.player_hand) = 0 /\ Len(game.dealer_hand) = 0

\* C22: game_phase only moves along WAITING_FOR_CLEAR, STARTING, PLAYER_TURN,
\* DEALER_TURN, GAME_OVER, WAITING_FOR_CLEAR, or from PLAYER_TURN to GAME_OVER
\* when the player total is over 21; PLAYER_TURN is entered only on two player
\* cards and one dealer card, GAME_OVER from DEALER_TURN only on a dealer total
\* of at least 17, and GAME_OVER is left only when both hands are empty
C22_PhaseOrder == [][C22_Step]_vars

\* a busted player has just taken the shortcut to GAME_OVER
C22_Witness ==
    /\ Len(passes) >= 1
    /\ passes[Len(passes)].phase = "PLAYER_TURN"
    /\ game.game_phase = "GAME_OVER"
    /\ game.player_total > 21

\* the message_to_speak of the last pass that set one, "" if none did
RECURSIVE LastProduced(_)
LastProduced(ps) ==
    IF ps = <<>> THEN ""
    ELSE IF ps[Len(ps)].message # "" THEN ps[Len(ps)].message
    ELSE LastProduced(SubSeq(ps, 1, Len(ps) - 1))

\* what the passes handed to speak_and_wait, in order
RECURSIVE SaidDuring(_)
SaidDuring(ps) ==
    IF ps = <<>> THEN <<>> ELSE ps[1].said \o SaidDuring(Tail(ps))

CallReturned == gpc = "frame" /\ passes # <<>>

C24_Step ==
    (bet_result'.op = "double_down" /\ bet_result'.raised # "") =>
        /\ chip_manager'.balance = chip_manager.balance
        /\ chip_manager'.total_wagered = chip_manager.total_wagered
        /\ current_bet'.amount = current_bet.amount

\* C24: a call of BettingManager.double_down that raises leaves the chip
\* balance, the total wagered and the amount of the current bet as they were
C24_RaisingDoubleDownKeepsChips == [][C24_Step]_vars

\* C25: from a non-negative starting balance, whatever place_bet, double_down,
\* resolve_bet and clear_bet calls succeed or raise, the balance of the
\* ChipManager is never negative
C25_BalanceNeverNegative == chip_manager.balance >= 0

\* a double_down refused for lack of chips after the bets took the last chip
C25_Witness ==
    /\ bet_result = [op |-> "double_down", raised |-> "InsufficientChipsError"]
    /\ chip_manager.balance = 0
    /\ chip_manager.total_wagered > 0

\* C26: after bets placed and resolved through the BettingManager,
\* get_net_profit is the current balance minus the starting balance
\* (checked after the first bet, not doubled, has been resolved)
C26_NetProfitIsBalanceChange ==
    ( /\ bet_result = [op |-> "resolve_bet", raised |-> ""]
      /\ placed = 1
      /\ ~current_bet.is_doubled ) =>
        get_net_profit(chip_manager) = chip_manager.balance - initial_balance

C28_Step ==
    \A i \in 1..Len(achievements) :
        /\ achievements[i].is_unlocked => achievements'[i].is_unlocked
        /\ updates' # updates =>
              ( InSeq(i, newly_unlocked') <=>
                  (~satisfied[i] /\ check_unlock_condition(achievements[i], game_stats')) )
        /\ notifications'[i] # notifications[i] =>
              (notifications[i] = 0 /\ notifications'[i] = 1 /\ InSeq(i, newly_unlocked'))

\* C28: an unlocked achievement is never locked again, and update_achievements
\* returns an achievement as newly unlocked, and calls the unlock callbacks
\* with it, in exactly one call: the first whose statistics meet its unlock
\* condition
C28_UnlockedOnce == [][C28_Step]_vars

\* an achievement reported by an earlier call, and not by the later call
\* whose statistics meet its condition again
C28_Witness ==
    /\ updates >= 2
    /\ \E i \in 1..Len(achievements) :
          /\ notifications[i] = 1
          /\ check_unlock_condition(achievements[i], game_stats)
          /\ ~InSeq(i, newly_unlocked)

\* C29: after any update_achievements calls the progress of an achievement
\* never exceeds its progress_max, and an unlocked achievement reports a
\* progress equal to its progress_max
C29_ProgressWithinMax ==
    \A i \in 1..Len(achievements) :
        /\ achievements[i].progress <= achievements[i].progress_max
        /\ achievements[i].is_unlocked =>
              achievements[i].progress = achievements[i].progress_max

\* C30: after speak(text), wait_for_speech(timeout) returns only once the
\* text has been spoken to its end or the timeout has elapsed
C30_WaitOutlastsSpeech ==
    (cpc = "returned" /\ awaited # 0) =>
        (InSeq(awaited, finished) \/ elapsed > wait_timeout)

\* C27: a ProfileManager constructed on the directory does not contain a name
\* that was removed with delete_profile before and not created again,
\* whatever save_current_profile and save_all_profiles calls came in between
C27_DeletedStaysDeleted ==
    \A name \in deleted.before_manager : profiles[name] = 0

\* the templates of a store whose difference to the glyph is d
Attaining(img, templates, regionPx, d) ==
    { templates[i].name : i \in { k \in 1..Len(templates) :
                                    image_diff(img, templates[k].img, regionPx) = d } }

MinimumReported(name, confidence, img, templates, regionPx, max) ==
    templates # <<>> =>
        LET m == SmallestDiff(img, templates, regionPx)
        IN /\ confidence = Confidence(Fin(m), max)
           /\ m <= max => name \in Attaining(img, templates, regionPx, m)

\* C33: match_rank and match_suit return the smallest difference between the
\* glyph and the loaded templates of the kind, and the name of a template
\* with that difference whenever it does not exceed the kind's threshold
C33_MinimumAndItsName ==
    \A rec \in Records :
        /\ MinimumReported(rec.rank, rec.rank_confidence,
                           isolate_rank(Source(rec).rank_img), rank_templates,
                           RankRegionPx, RANK_DIFF_MAX)
        /\ MinimumReported(rec.suit, rec.suit_confidence,
                           isolate_suit(Source(rec).suit_img), suit_templates,
                           SuitRegionPx, SUIT_DIFF_MAX)

\* C34: find_cards considers only the outermost contours of the image: a
\* contour nested inside another contour is never among its candidates
C34_OnlyExternalContours ==
    \A k \in 1..Len(card_contours) : frame[card_contours[k].id].parent = 0

\* C31: is_speaking, called while the speaker thread has a speech subprocess
\* running, returns True, and returns before that speech has ended
C31_TrueWhileSpeaking ==
    (probe.at = "returned" /\ probe.running) =>
        /\ probe.result = TRUE
        /\ probe.done_at_return = probe.done

\* the speech in progress at speak_immediate is cut off: it never ends as a
\* completed speech
SpeechInterrupted ==
    immediate.interrupted # 0 => ~InSeq(immediate.interrupted, finished)

\* the first speech to start after speak_immediate is its text
TextSpokenNext ==
    LET n == immediate.done_before + (IF immediate.interrupted # 0 THEN 1 ELSE 0)
    IN Len(finished) > n => finished[n + 1] = immediate.id

\* C32: speak_immediate(text) interrupts the speech in progress and discards
\* every message queued before it: text is the next message spoken after the
\* call
C32_ImmediateIsNext ==
    immediate.id # 0 =>
        /\ SpeechInterrupted
        /\ TextSpokenNext
        /\ \A id \in immediate.discarded : ~InSeq(id, finished)

====
